---- MODULE Spec2Model ----
(***************************************************************************)
(* Model of the AR-Furniture front end: the FurnitureViewer component      *)
(* (device probe, AR hand-off, share fallback chain, texture transition,   *)
(* checkout navigation) and the Home page that mounts it.                  *)
(*                                                                         *)
(* Strings that the code inspects or transforms (user agent, URLs, names)  *)
(* are sequences of one-character strings; fixed texts that are only       *)
(* passed along (alert texts, function names) are TLA+ strings.            *)
(***************************************************************************)
EXTENDS Integers, Sequences, FiniteSets, TLC

\* -------------------------------------------------------------------------
\* Bounds of the model
\* -------------------------------------------------------------------------
MaxTimers == 2
MaxShares == 1
ProbeLen == 4
\* Temporary textareas that may stay attached to document.body at once
MaxAttached == 1
\* Longest generated value of the texture parameter of the payment page
MaxParamLen == 4
\* Longest generated tail of the page URL whose QR image URL is computed
MaxUrlTail == 3
\* Navigations asked of the router that may be pending at once
MaxPendingNav == 2
\* Asynchronous work that may be outstanding at once: pending 300 ms
\* timeouts, awaited share promises and pending navigations together
MaxPending == 2

\* -------------------------------------------------------------------------
\* Characters and case folding
\* -------------------------------------------------------------------------
\* String.prototype.toUpperCase / toLowerCase on one ASCII character
UpperOf == [a |-> "A", b |-> "B", c |-> "C", d |-> "D", e |-> "E", f |-> "F", g |-> "G", h |-> "H", i |-> "I", j |-> "J", k |-> "K", l |-> "L", m |-> "M", n |-> "N", o |-> "O", p |-> "P", q |-> "Q", r |-> "R", s |-> "S", t |-> "T", u |-> "U", v |-> "V", w |-> "W", x |-> "X", y |-> "Y", z |-> "Z"]
LowerOf == [A |-> "a", B |-> "b", C |-> "c", D |-> "d", E |-> "e", F |-> "f", G |-> "g", H |-> "h", I |-> "i", J |-> "j", K |-> "k", L |-> "l", M |-> "m", N |-> "n", O |-> "o", P |-> "p", Q |-> "q", R |-> "r", S |-> "s", T |-> "t", U |-> "u", V |-> "v", W |-> "w", X |-> "x", Y |-> "y", Z |-> "z"]
LowerLetters == {"a","b","c","d","e","f","g","h","i","j","k","l","m","n","o","p","q","r","s","t","u","v","w","x","y","z"}
UpperLetters == {"A","B","C","D","E","F","G","H","I","J","K","L","M","N","O","P","Q","R","S","T","U","V","W","X","Y","Z"}
ToUpperChar(c) == IF c \in LowerLetters THEN UpperOf[c] ELSE c
ToLowerChar(c) == IF c \in UpperLetters THEN LowerOf[c] ELSE c

toLowerCase(s) == [k \in 1..Len(s) |-> ToLowerChar(s[k])]

\* -------------------------------------------------------------------------
\* Device capability probe: isMobile()
\* -------------------------------------------------------------------------
\* The alternatives of the regular expression, in source order
MobilePatterns == <<
  <<"M","o","b","i">>,
  <<"A","n","d","r","o","i","d">>,
  <<"i","P","h","o","n","e">>,
  <<"i","P","a","d">>,
  <<"i","P","o","d">>,
  <<"O","p","e","r","a"," ","M","i","n","i">>,
  <<"I","E","M","o","b","i","l","e">>,
  <<"W","P","D","e","s","k","t","o","p">> >>

\* Variant: the i flag is missing
CharMatchesExact(c, p) == c = p

\* The regular expression's i flag: two characters match when their
\* canonical (upper-case) forms are equal
CharMatches(c, p) == ToUpperChar(c) = ToUpperChar(p)

\* The pattern pat matches the string s starting at index pos
MatchesAt(s, pat, pos) ==
  /\ pos + Len(pat) - 1 <= Len(s)
  /\ \A k \in 1..Len(pat) : CharMatches(s[pos + k - 1], pat[k])

\* RegExp.prototype.test: some alternative matches at some position
RegexTest(s) ==
  \E n \in 1..Len(MobilePatterns) :
    \E pos \in 1..Len(s) : MatchesAt(s, MobilePatterns[n], pos)

isMobile(hasWindow, ua) ==
  IF ~hasWindow THEN FALSE ELSE RegexTest(ua)

\* -------------------------------------------------------------------------
\* URLs, encodeURIComponent and the QR image URL
\* -------------------------------------------------------------------------
Digits == {"0","1","2","3","4","5","6","7","8","9"}
UnreservedMarks == {"-","_",".","!","~","*","'","(",")"}

IsLetter(c) == c \in LowerLetters \/ c \in UpperLetters
IsUnreserved(c) == IsLetter(c) \/ c \in Digits \/ c \in UnreservedMarks

\* The grave accent (U+0060) cannot be written inside a string of this
\* language; as an element of a URL it is written by its code point
GraveAccent == "U+0060"

\* The printable ASCII characters that encodeURIComponent escapes (all but
\* the letters, the digits and the unreserved marks), and their
\* hexadecimal codes
EscapedChars == {" ","\"","#","$","%","&","+",",","/",":",";","<","=",">","?","@","[","\\","]","^",GraveAccent,"{","|","}"}
HexOf(c) ==
  CASE c = " " -> <<"2","0">>  [] c = "#" -> <<"2","3">>  [] c = "$" -> <<"2","4">>
    [] c = "%" -> <<"2","5">>  [] c = "&" -> <<"2","6">>  [] c = "+" -> <<"2","B">>
    [] c = "," -> <<"2","C">>  [] c = "/" -> <<"2","F">>  [] c = ":" -> <<"3","A">>
    [] c = ";" -> <<"3","B">>  [] c = "<" -> <<"3","C">>  [] c = "=" -> <<"3","D">>
    [] c = ">" -> <<"3","E">>  [] c = "?" -> <<"3","F">>  [] c = "@" -> <<"4","0">>
    [] c = "[" -> <<"5","B">>  [] c = "]" -> <<"5","D">>  [] c = "^" -> <<"5","E">>
    [] c = "{" -> <<"7","B">>  [] c = "|" -> <<"7","C">>  [] c = "}" -> <<"7","D">>
    [] c = "\"" -> <<"2","2">> [] c = "\\" -> <<"5","C">> [] c = GraveAccent -> <<"6","0">>

\* Variant: no character is escaped
EncodeCharRaw(c) == <<c>>

EncodeChar(c) == IF IsUnreserved(c) THEN <<c>> ELSE <<"%">> \o HexOf(c)

RECURSIVE encodeURIComponent(_)
encodeURIComponent(s) ==
  IF s = <<>> THEN <<>>
  ELSE EncodeChar(Head(s)) \o encodeURIComponent(Tail(s))

QR_PREFIX == <<"h","t","t","p","s",":","/","/","a","p","i",".","q","r","s","e","r","v","e","r",".","c","o","m","/","v","1","/","c","r","e","a","t","e","-","q","r","-","c","o","d","e","/","?","s","i","z","e","=","2","0","0","x","2","0","0","&","d","a","t","a","=">>

\* const qrUrl = "...&data=" + encodeURIComponent(window ? location.href : "")
qrUrl(hasWindow, locationHref) ==
  QR_PREFIX \o encodeURIComponent(IF hasWindow THEN locationHref ELSE <<>>)

\* -------------------------------------------------------------------------
\* Static tables
\* -------------------------------------------------------------------------
TEXTURES == <<
  [name |-> <<"B","l","u","e">>,
   model |-> "/sample-furniture-blue.glb",
   iosmodel |-> "/sample-furniture-blue.usdz",
   img |-> "https://www.jagdishstore.com/cdn/shop/products/1010133230700104-008_800x.jpg?v=1746022203",
   price |-> 300,
   poster |-> "/sofa-blue-poster.png"],
  [name |-> <<"R","e","d">>,
   model |-> "/sample-furniture-red.glb",
   iosmodel |-> "/sample-furniture-red.usdz",
   img |-> "https://www.jagdishstore.com/cdn/shop/products/1010133220400211-002_800x.jpg?v=1746022983",
   price |-> 400,
   poster |-> "/sofa-red-poster.png"] >>

TextureSet == {TEXTURES[i] : i \in 1..Len(TEXTURES)}

productName == "Modern Sofa Set"

\* Texts passed to alert() and console.error()
MsgCopied == "Link copied to clipboard!"
MsgUnableCopy == "Unable to copy link. Please copy manually: "
MsgUnableShare == "Unable to share. Please copy the link manually: "
MsgErrorSharing == "Error sharing:"

\* -------------------------------------------------------------------------
\* Environments the page is opened in
\* -------------------------------------------------------------------------
UA_iPhone == <<"M","o","z","i","l","l","a","/","5",".","0"," ","(","i","P","h","o","n","e",";"," ","C","P","U"," ","i","P","h","o","n","e"," ","O","S"," ","1","5","_","0"," ","l","i","k","e"," ","M","a","c"," ","O","S"," ","X",")">>
UA_Windows == <<"M","o","z","i","l","l","a","/","5",".","0"," ","(","W","i","n","d","o","w","s"," ","N","T"," ","1","0",".","0",";"," ","W","i","n","6","4",";"," ","x","6","4",")">>
SessionUserAgents == {UA_iPhone, UA_Windows}

HomeUrl == <<"h","t","t","p",":","/","/","l","o","c","a","l","h","o","s","t",":","3","0","0","0","/">>
QueryUrl == <<"h","t","t","p",":","/","/","a",".","i","o","/","?","q","=","a","%","2","0","b","&","c","#","d">>
EntryUrls == {HomeUrl, QueryUrl}

\* What the host offers to handleShare: navigator.share, navigator.clipboard
NativeAndClipboard == [share |-> TRUE, clipboard |-> "writeText"]
NativeOnly == [share |-> TRUE, clipboard |-> "undefined"]
ClipboardOnly == [share |-> FALSE, clipboard |-> "writeText"]
ClipboardNoWriteText == [share |-> FALSE, clipboard |-> "noWriteText"]
NoShareHost == [share |-> FALSE, clipboard |-> "undefined"]
ShareHosts == {NativeAndClipboard, NativeOnly, ClipboardOnly, ClipboardNoWriteText, NoShareHost}

\* The sessions explored: every share host once, on a desktop browser or
\* on a phone, at the plain URL or at the URL with a query
SessionEnvironments ==
  { [ua |-> UA_Windows, host |-> NativeAndClipboard, url |-> QueryUrl],
    [ua |-> UA_Windows, host |-> ClipboardOnly, url |-> HomeUrl],
    [ua |-> UA_Windows, host |-> ClipboardNoWriteText, url |-> HomeUrl],
    [ua |-> UA_iPhone, host |-> NativeOnly, url |-> QueryUrl],
    [ua |-> UA_iPhone, host |-> NoShareHost, url |-> HomeUrl] }

PaymentPrefix == <<"/","p","a","y","m","e","n","t","?","t","e","x","t","u","r","e","=">>

\* -------------------------------------------------------------------------
\* State
\* -------------------------------------------------------------------------
VARIABLES
  windowDefined,    \* typeof window !== "undefined"
  userAgent,        \* navigator.userAgent
  navShare,         \* navigator.share is defined
  navClipboard,     \* "undefined" | "noWriteText" | "writeText"
  history,          \* session history; its last entry is window.location.href
  route,            \* "home" | "payment" | "away", "probe" and "render" in the
                    \* specifications of one function
  loading,          \* Home: loading state
  loadTimer,        \* Home: the 2000 ms timer is pending
  selectedTexture,  \* FurnitureViewer state
  showQR,           \* FurnitureViewer state
  fade,             \* FurnitureViewer state
  viewerRef,        \* viewerRef.current: "null" while no viewer is mounted,
                    \* "element" for the model-viewer element before the
                    \* custom element is defined, "upgraded" once it is
  viewerChunk,      \* import("./components/FurnitureViewer"):
                    \* "unrequested" | "pending" | "loaded"
  widget,           \* import("@google/model-viewer"):
                    \* "unrequested" | "pending" | "defined"
  pendingNav,       \* navigations asked of the router and not yet completed
  timers,           \* pending 300 ms callbacks, in the order they were set
  shares,           \* invocations of handleShare, by slot
  bodyTextAreas,    \* temporary textareas attached to document.body
  lastOp,           \* the handler or callback that ran last, with the calls
                    \* it made on the viewer widget
  probeResult,      \* result of the latest isMobile() evaluation in the probe
  lastRequest,      \* index of the variant asked for by the latest
                    \* handleTextureChange call on the mounted viewer,
                    \* 0 if none
  paymentView,      \* what PaymentContent computed when it rendered
  qrSrc             \* qrUrl as computed by the latest render of the viewer

vars == <<windowDefined, userAgent, navShare, navClipboard, history, route,
          loading, loadTimer, selectedTexture, showQR, fade, viewerRef,
          viewerChunk, widget, pendingNav,
          timers, shares, bodyTextAreas, lastOp, probeResult, lastRequest,
          paymentView, qrSrc>>

envVars == <<windowDefined, userAgent, navShare, navClipboard>>
viewerVars == <<selectedTexture, showQR, fade, viewerRef>>
homeVars == <<route, loading, loadTimer>>
shareVars == <<shares, bodyTextAreas>>
moduleVars == <<viewerChunk, widget>>

\* window.location.href
href == history[Len(history)]

\* Variant: the second variant is the initial one
initialTextureSecond == TEXTURES[2]

\* Line 55: useState(TEXTURES[0])
initialTexture == TEXTURES[1]

\* The asynchronous work outstanding
PendingTasks ==
  Len(timers) + Len(pendingNav)
  + Cardinality({i \in DOMAIN shares : shares[i].pc \in {"awaitShare", "awaitClipboard"}})

\* A FurnitureViewer is mounted: React attaches the ref in the commit that
\* mounts the viewer and detaches it in the one that unmounts it
ViewerMounted == viewerRef # "null"

\* arg: the share slot, or 1 when dismissHandoff found the overlay shown
Op(name, arg) == [name |-> name, arg |-> arg, calls |-> <<>>, thrown |-> FALSE]

\* -------------------------------------------------------------------------
\* Home: loading timer, mount and unmount of the viewer
\* -------------------------------------------------------------------------
\* Unmounting the viewer does not clear its timeouts: the callbacks stay
\* queued but their state updates no longer reach a mounted component
Orphaned(ts) == [k \in 1..Len(ts) |-> [ts[k] EXCEPT !.live = FALSE]]

\* The element a viewer mounted now gets as its ref: model-viewer is a
\* plain element until the module of line 61 has defined it
MountedRef == IF widget = "defined" THEN "upgraded" ELSE "element"

\* Lines 60-62: the effect of the mount starts import("@google/model-viewer")
WidgetRequested == IF widget = "unrequested" THEN "pending" ELSE widget

\* setTimeout(() => setLoading(false), 2000) fires: Home renders the
\* dynamic wrapper of the viewer.  The first time this starts
\* import("./components/FurnitureViewer") and nothing of the viewer is
\* mounted yet; once the module is loaded the viewer is mounted in the same
\* commit, its state starting from the useState/useRef initial values
LoadTimerFire ==
  /\ loadTimer
  /\ loading' = FALSE
  /\ loadTimer' = FALSE
  /\ selectedTexture' = initialTexture
  /\ showQR' = FALSE
  /\ fade' = FALSE
  /\ lastRequest' = 0
  /\ IF viewerChunk = "loaded"
     THEN /\ viewerRef' = MountedRef
          /\ widget' = WidgetRequested
          /\ qrSrc' = qrUrl(windowDefined, href)
          /\ lastOp' = Op("mount", 0)
          /\ UNCHANGED viewerChunk
     ELSE /\ viewerChunk' = "pending"
          /\ lastOp' = Op("loadTimer", 0)
          /\ UNCHANGED <<viewerRef, widget, qrSrc>>
  /\ UNCHANGED <<envVars, pendingNav, history, route, timers, shareVars, probeResult, paymentView>>

\* import("./components/FurnitureViewer") resolves while Home shows the
\* dynamic wrapper: the viewer is mounted
ViewerImportResolve ==
  /\ viewerChunk = "pending"
  /\ route = "home"
  /\ ~loading
  /\ viewerChunk' = "loaded"
  /\ selectedTexture' = initialTexture
  /\ showQR' = FALSE
  /\ fade' = FALSE
  /\ lastRequest' = 0
  /\ viewerRef' = MountedRef
  /\ widget' = WidgetRequested
  /\ qrSrc' = qrUrl(windowDefined, href)
  /\ lastOp' = Op("mount", 0)
  /\ UNCHANGED <<envVars, pendingNav, history, homeVars, timers, shareVars, probeResult, paymentView>>

\* import("@google/model-viewer") resolves: the custom element is defined
\* and a model-viewer element in the document is upgraded
ModelViewerDefined ==
  /\ widget = "pending"
  /\ widget' = "defined"
  /\ viewerRef' = IF viewerRef = "element" THEN "upgraded" ELSE viewerRef
  /\ lastOp' = Op("modelViewerDefined", 0)
  /\ UNCHANGED <<envVars, viewerChunk, pendingNav, history, homeVars, selectedTexture, showQR, fade, timers, shareVars, probeResult, lastRequest, paymentView, qrSrc>>

\* Variant: the effect has no cleanup, the timer stays as it is
EffectCleanupKeeps(pending) == pending

\* Line 16: return () => clearTimeout(timer)
EffectCleanup(pending) == FALSE

\* Home is left while loading (the browser's own navigation): the effect
\* cleanup runs, and what was asked of the router is gone with the page
HomeLeave ==
  /\ route = "home" /\ loading
  /\ route' = "away"
  /\ loadTimer' = EffectCleanup(loadTimer)
  /\ pendingNav' = <<>>
  /\ lastOp' = Op("homeLeave", 0)
  /\ UNCHANGED <<envVars, moduleVars, history, loading, viewerVars, timers, shareVars, probeResult, lastRequest, paymentView, qrSrc>>

\* -------------------------------------------------------------------------
\* FurnitureViewer: texture transition
\* -------------------------------------------------------------------------
\* The position of a variant in TEXTURES
TextureIndex(texture) == CHOOSE i \in 1..Len(TEXTURES) : TEXTURES[i] = texture

\* Variant: the request is never recognised as the active variant
SameVariantNever(texture, current) == FALSE

\* Line 65: the request is for the variant that is rendered now
SameVariant(texture, current) == texture.model = current.model

\* arg: the index of the requested variant; calls: what the handler called
handleTextureChange(texture) ==
  /\ ViewerMounted
  /\ IF SameVariant(texture, selectedTexture)
     THEN /\ UNCHANGED <<fade, timers>>
          /\ lastOp' = [name |-> "handleTextureChange",
                        arg |-> TextureIndex(texture), calls |-> <<>>,
                        thrown |-> FALSE]
     ELSE /\ Len(timers) < MaxTimers
          /\ PendingTasks < MaxPending
          /\ fade' = TRUE
          /\ timers' = Append(timers, [texture |-> texture, live |-> TRUE])
          /\ lastOp' = [name |-> "handleTextureChange",
                        arg |-> TextureIndex(texture),
                        calls |-> <<"setFade", "setTimeout">>,
                        thrown |-> FALSE]
  /\ lastRequest' = TextureIndex(texture)
  /\ UNCHANGED <<envVars, moduleVars, pendingNav, history, homeVars, selectedTexture, showQR, viewerRef, shareVars, probeResult, paymentView, qrSrc>>

\* Variant: the callback clears the fade flag and leaves the variant
TimerCallbackKeepsVariant(entry, current, fd) ==
  IF entry.live
  THEN [selectedTexture |-> current, fade |-> FALSE]
  ELSE [selectedTexture |-> current, fade |-> fd]

\* Variant: the callback swaps the variant and leaves the fade flag set
TimerCallbackKeepsFade(entry, current, fd) ==
  IF entry.live
  THEN [selectedTexture |-> entry.texture, fade |-> fd]
  ELSE [selectedTexture |-> current, fade |-> fd]

\* Lines 67-70: the callback sets the variant and clears the fade flag; on
\* an unmounted component both updates are dropped
TimerCallback(entry, current, fd) ==
  IF entry.live
  THEN [selectedTexture |-> entry.texture, fade |-> FALSE]
  ELSE [selectedTexture |-> current, fade |-> fd]

\* Variant: the callback registered last is due first
DueLast(pending) == Len(pending)

\* Line 67: every callback is registered with the same delay of 300 ms, so
\* of the pending callbacks the one registered first is due first
DueFirst(pending) == 1

\* The pending 300 ms callback that is due runs
TimerFire ==
  /\ timers # <<>>
  /\ timers' = SubSeq(timers, 1, DueFirst(timers) - 1)
                 \o SubSeq(timers, DueFirst(timers) + 1, Len(timers))
  /\ selectedTexture' = TimerCallback(timers[DueFirst(timers)], selectedTexture, fade).selectedTexture
  /\ fade' = TimerCallback(timers[DueFirst(timers)], selectedTexture, fade).fade
  /\ lastOp' = Op("timer", 0)
  /\ UNCHANGED <<envVars, moduleVars, pendingNav, history, homeVars, showQR, viewerRef, shareVars, probeResult, lastRequest, paymentView, qrSrc>>

\* -------------------------------------------------------------------------
\* FurnitureViewer: AR hand-off
\* -------------------------------------------------------------------------
\* Variant: the desktop branch is not an else, the widget is called as well
ARBranchNoElse(mobile, ref, qr) ==
  [showQR |-> IF mobile THEN qr ELSE TRUE,
   calls |-> IF ref = "upgraded" THEN <<"activateAR">> ELSE <<>>,
   thrown |-> ref = "element"]

\* The body of handleAR: the value of showQR, the calls made on the widget
\* and whether the handler throws.  viewerRef.current?.activateAR() makes
\* no call on a null ref, calls the method of the upgraded element, and
\* throws a TypeError on an element that has no such method yet
ARBranch(mobile, ref, qr) ==
  IF mobile
  THEN [showQR |-> qr,
        calls |-> IF ref = "upgraded" THEN <<"activateAR">> ELSE <<>>,
        thrown |-> ref = "element"]
  ELSE [showQR |-> TRUE, calls |-> <<>>, thrown |-> FALSE]

\* The session user agents for which isMobile() is true, computed once
MobileSessionAgents == {ua \in SessionUserAgents : isMobile(TRUE, ua)}

\* The value of isMobile() in the current environment
isMobileNow ==
  IF windowDefined /\ userAgent \in SessionUserAgents
  THEN userAgent \in MobileSessionAgents
  ELSE isMobile(windowDefined, userAgent)

\* Variant: the AR button does nothing while a share is awaiting
handleARWhenNoShare ==
  /\ ViewerMounted
  /\ \A i \in 1..MaxShares : shares[i].pc \notin {"awaitShare", "awaitClipboard"}
  /\ LET r == ARBranch(isMobileNow, viewerRef, showQR)
     IN /\ showQR' = r.showQR
        /\ lastOp' = [Op("handleAR", 0) EXCEPT !.calls = r.calls,
                                                !.thrown = r.thrown]
  /\ UNCHANGED <<envVars, moduleVars, pendingNav, history, homeVars, selectedTexture, fade, viewerRef, timers, shareVars, probeResult, lastRequest, paymentView, qrSrc>>

handleAR ==
  /\ ViewerMounted
  /\ LET r == ARBranch(isMobileNow, viewerRef, showQR)
     IN /\ showQR' = r.showQR
        /\ lastOp' = [Op("handleAR", 0) EXCEPT !.calls = r.calls,
                                                !.thrown = r.thrown]
  /\ UNCHANGED <<envVars, moduleVars, pendingNav, history, homeVars, selectedTexture, fade, viewerRef, timers, shareVars, probeResult, lastRequest, paymentView, qrSrc>>

\* Variant: the close button toggles the overlay
dismissHandoffToggle ==
  /\ ViewerMounted
  /\ showQR' = ~showQR
  /\ lastOp' = Op("dismissHandoff", IF showQR THEN 1 ELSE 0)
  /\ UNCHANGED <<envVars, moduleVars, pendingNav, history, homeVars, selectedTexture, fade, viewerRef, timers, shareVars, probeResult, lastRequest, paymentView, qrSrc>>

\* onClick={() => setShowQR(false)}: the closure does not read the state,
\* so it is modelled as applicable whether or not the overlay is shown
dismissHandoff ==
  /\ ViewerMounted
  /\ showQR' = FALSE
  /\ lastOp' = Op("dismissHandoff", IF showQR THEN 1 ELSE 0)
  /\ UNCHANGED <<envVars, moduleVars, pendingNav, history, homeVars, selectedTexture, fade, viewerRef, timers, shareVars, probeResult, lastRequest, paymentView, qrSrc>>

\* What the QR code shown in the overlay encodes: the data parameter of the
\* image URL, percent-decoded by the QR service
HexChars == <<"0","1","2","3","4","5","6","7","8","9","A","B","C","D","E","F">>
LowerHexChars == <<"0","1","2","3","4","5","6","7","8","9","a","b","c","d","e","f">>

\* A hex digit of either letter case, and its value
IsHex(c) == \E i \in 1..16 : HexChars[i] = c \/ LowerHexChars[i] = c
HexValue(c) == (CHOOSE i \in 1..16 : HexChars[i] = c \/ LowerHexChars[i] = c) - 1

\* The printable ASCII characters, code points 32 to 126, in order
PrintableAscii ==
  << " ","!","\"","#","$","%","&","'","(",")","*","+",",","-",".","/",
     "0","1","2","3","4","5","6","7","8","9",":",";","<","=",">","?","@",
     "A","B","C","D","E","F","G","H","I","J","K","L","M","N","O","P","Q","R","S","T","U","V","W","X","Y","Z",
     "[","\\","]","^","_",GraveAccent,
     "a","b","c","d","e","f","g","h","i","j","k","l","m","n","o","p","q","r","s","t","u","v","w","x","y","z",
     "{","|","}","~" >>

\* The character of a code point: itself when it is printable ASCII,
\* written U+XXXX otherwise
RECURSIVE HexString(_, _)
HexString(n, digits) ==
  IF digits = 0 THEN "" ELSE HexString(n \div 16, digits - 1) \o HexChars[(n % 16) + 1]
CharOfCode(cp) ==
  IF cp \in 32..126 THEN PrintableAscii[cp - 31]
  ELSE "U+" \o HexString(cp, IF cp < 65536 THEN 4 ELSE IF cp < 1048576 THEN 5 ELSE 6)

\* What the decoder puts for bytes that are not UTF-8
ReplacementChar == "U+FFFD"

\* The byte written %ab, and the character a lone %ab decodes to
ByteOf(a, b) == 16 * HexValue(a) + HexValue(b)
DecodeHex(a, b) ==
  IF ByteOf(a, b) < 128 THEN CharOfCode(ByteOf(a, b)) ELSE ReplacementChar

\* Percent-decoding, first half: every % followed by two hex digits is a
\* byte; a byte below 128 is a character by itself, and so is every
\* character that is not part of an escape
RECURSIVE PercentItems(_)
PercentItems(s) ==
  IF s = <<>> THEN <<>>
  ELSE IF Head(s) = "%" /\ Len(s) >= 3 /\ IsHex(s[2]) /\ IsHex(s[3])
       THEN << IF ByteOf(s[2], s[3]) < 128
               THEN [byte |-> 0, char |-> DecodeHex(s[2], s[3])]
               ELSE [byte |-> ByteOf(s[2], s[3]), char |-> ""] >>
            \o PercentItems(SubSeq(s, 4, Len(s)))
       ELSE <<[byte |-> 0, char |-> Head(s)]>> \o PercentItems(Tail(s))

\* Percent-decoding, second half: the bytes from 128 on are read as UTF-8;
\* a byte that cannot start or continue a sequence, and a sequence cut
\* short, give the replacement character
RECURSIVE Utf8Decode(_, _, _, _, _, _, _)
Utf8Decode(items, k, needed, seen, cp, lower, upper) ==
  IF k > Len(items)
  THEN IF needed > 0 THEN <<ReplacementChar>> ELSE <<>>
  ELSE LET b == items[k].byte
       IN IF needed = 0
          THEN IF b = 0
               THEN <<items[k].char>> \o Utf8Decode(items, k + 1, 0, 0, 0, 128, 191)
               ELSE IF b \in 194..223
               THEN Utf8Decode(items, k + 1, 1, 0, b - 192, 128, 191)
               ELSE IF b \in 224..239
               THEN Utf8Decode(items, k + 1, 2, 0, b - 224,
                               IF b = 224 THEN 160 ELSE 128,
                               IF b = 237 THEN 159 ELSE 191)
               ELSE IF b \in 240..244
               THEN Utf8Decode(items, k + 1, 3, 0, b - 240,
                               IF b = 240 THEN 144 ELSE 128,
                               IF b = 244 THEN 143 ELSE 191)
               ELSE <<ReplacementChar>> \o Utf8Decode(items, k + 1, 0, 0, 0, 128, 191)
          ELSE IF b \notin lower..upper
               THEN <<ReplacementChar>> \o Utf8Decode(items, k, 0, 0, 0, 128, 191)
               ELSE IF seen + 1 = needed
               THEN <<CharOfCode(cp * 64 + b - 128)>>
                      \o Utf8Decode(items, k + 1, 0, 0, 0, 128, 191)
               ELSE Utf8Decode(items, k + 1, needed, seen + 1, cp * 64 + b - 128, 128, 191)

PercentDecode(s) == Utf8Decode(PercentItems(s), 1, 0, 0, 0, 128, 191)

QRPayload(url) == PercentDecode(SubSeq(url, Len(QR_PREFIX) + 1, Len(url)))

\* -------------------------------------------------------------------------
\* FurnitureViewer: navigation
\* -------------------------------------------------------------------------
\* scheme://host part of a URL (up to, not including, the third slash)
RECURSIVE OriginLen(_, _, _)
OriginLen(s, k, slashes) ==
  IF k > Len(s) THEN Len(s)
  ELSE IF s[k] = "/" /\ slashes = 2 THEN k - 1
  ELSE OriginLen(s, k + 1, IF s[k] = "/" THEN slashes + 1 ELSE slashes)
Origin(s) == SubSeq(s, 1, OriginLen(s, 1, 0))

\* Variant: the name goes into the query as it is written in TEXTURES
CartTargetRaw(texture) == PaymentPrefix \o texture.name

\* router.push("/payment?texture=" + selectedTexture.name.toLowerCase())
CartTarget(texture) == PaymentPrefix \o toLowerCase(texture.name)

\* A navigation asked of the router: router.push(url) or router.back()
PushNav(url) == [kind |-> "push", url |-> url]
BackNav == [kind |-> "back", url |-> <<>>]

\* Variant: going to checkout puts the viewer back to its initial variant
handleCartResets ==
  /\ ViewerMounted
  /\ Len(pendingNav) < MaxPendingNav
  /\ PendingTasks < MaxPending
  /\ pendingNav' = Append(pendingNav, PushNav(Origin(href) \o CartTarget(selectedTexture)))
  /\ lastOp' = Op("handleCart", 0)
  /\ selectedTexture' = initialTexture
  /\ fade' = FALSE
  /\ UNCHANGED <<envVars, moduleVars, history, homeVars, showQR, viewerRef, timers, shareVars, probeResult, lastRequest, paymentView, qrSrc>>

\* Lines 122-124: the handler asks the router for the checkout page and
\* returns; the viewer stays mounted until the navigation completes
handleCart ==
  /\ ViewerMounted
  /\ Len(pendingNav) < MaxPendingNav
  /\ PendingTasks < MaxPending
  /\ pendingNav' = Append(pendingNav, PushNav(Origin(href) \o CartTarget(selectedTexture)))
  /\ lastOp' = Op("handleCart", 0)
  /\ UNCHANGED <<envVars, moduleVars, history, homeVars, viewerVars, timers, shareVars, probeResult, lastRequest, paymentView, qrSrc>>

\* onClick={() => router.back()} in the viewer: the handler asks for the
\* traversal and returns
viewerBack ==
  /\ ViewerMounted
  /\ Len(pendingNav) < MaxPendingNav
  /\ PendingTasks < MaxPending
  /\ pendingNav' = Append(pendingNav, BackNav)
  /\ lastOp' = Op("viewerBack", 0)
  /\ UNCHANGED <<envVars, moduleVars, history, homeVars, viewerVars, timers, shareVars, probeResult, lastRequest, paymentView, qrSrc>>

\* The page of this application a URL belongs to
RouteOf(url) ==
  IF /\ Len(url) >= Len(Origin(url)) + 8
     /\ SubSeq(url, Len(Origin(url)) + 1, Len(Origin(url)) + 8)
          = <<"/","p","a","y","m","e","n","t">>
  THEN "payment" ELSE "home"

\* -------------------------------------------------------------------------
\* Payment page
\* -------------------------------------------------------------------------
\* Variant: both entries carry the price of the blue sofa
SofasOnePrice ==
  (<<"b","l","u","e">> :>
     [name |-> "Blue Sofa",
      img |-> "https://www.jagdishstore.com/cdn/shop/products/1010133230700104-008_800x.jpg?v=1746022203",
      price |-> 300])
  @@
  (<<"r","e","d">> :>
     [name |-> "Red Sofa",
      img |-> "https://www.jagdishstore.com/cdn/shop/products/1010133220400211-002_800x.jpg?v=1746022983",
      price |-> 300])

\* Lines 9-20 of the payment page
SOFAS ==
  (<<"b","l","u","e">> :>
     [name |-> "Blue Sofa",
      img |-> "https://www.jagdishstore.com/cdn/shop/products/1010133230700104-008_800x.jpg?v=1746022203",
      price |-> 300])
  @@
  (<<"r","e","d">> :>
     [name |-> "Red Sofa",
      img |-> "https://www.jagdishstore.com/cdn/shop/products/1010133220400211-002_800x.jpg?v=1746022983",
      price |-> 400])

\* SOFAS is an object literal: a key it does not own is looked up on
\* Object.prototype, whose members are functions or objects, all truthy
ObjectPrototypeKeys == {
  <<"c","o","n","s","t","r","u","c","t","o","r">>,
  <<"t","o","S","t","r","i","n","g">>,
  <<"v","a","l","u","e","O","f">>,
  <<"h","a","s","O","w","n","P","r","o","p","e","r","t","y">>,
  <<"i","s","P","r","o","t","o","t","y","p","e","O","f">>,
  <<"p","r","o","p","e","r","t","y","I","s","E","n","u","m","e","r","a","b","l","e">>,
  <<"t","o","L","o","c","a","l","e","S","t","r","i","n","g">>,
  <<"_","_","p","r","o","t","o","_","_">>,
  <<"_","_","d","e","f","i","n","e","G","e","t","t","e","r","_","_">>,
  <<"_","_","d","e","f","i","n","e","S","e","t","t","e","r","_","_">>,
  <<"_","_","l","o","o","k","u","p","G","e","t","t","e","r","_","_">>,
  <<"_","_","l","o","o","k","u","p","S","e","t","t","e","r","_","_">> }

\* SOFAS[key]: an entry of the table, a member of Object.prototype, undefined
SofasLookup(key) ==
  IF key \in DOMAIN SOFAS THEN [kind |-> "entry", member |-> key]
  ELSE IF key \in ObjectPrototypeKeys THEN [kind |-> "inherited", member |-> key]
  ELSE [kind |-> "undefined", member |-> <<>>]

\* The first position of character c in s, 0 if there is none
RECURSIVE IndexOfFrom(_, _, _)
IndexOfFrom(s, c, k) ==
  IF k > Len(s) THEN 0
  ELSE IF s[k] = c THEN k
  ELSE IndexOfFrom(s, c, k + 1)
IndexOf(s, c) == IndexOfFrom(s, c, 1)

\* The query of a URL: what stands between the first ? and the fragment
QueryString(url) ==
  LET hash == IndexOf(url, "#")
      noFragment == IF hash = 0 THEN url ELSE SubSeq(url, 1, hash - 1)
      mark == IndexOf(noFragment, "?")
  IN IF mark = 0 THEN <<>> ELSE SubSeq(noFragment, mark + 1, Len(noFragment))

\* Decoding of a name or a value of a query: + is a space, %XX a character
FormDecode(s) == PercentDecode([k \in 1..Len(s) |-> IF s[k] = "+" THEN " " ELSE s[k]])

\* URLSearchParams.get: the value of the first pair with that name, or null
RECURSIVE SearchParamsGet(_, _)
SearchParamsGet(query, key) ==
  IF query = <<>> THEN [present |-> FALSE, value |-> <<>>]
  ELSE LET amp == IndexOf(query, "&")
           pair == IF amp = 0 THEN query ELSE SubSeq(query, 1, amp - 1)
           rest == IF amp = 0 THEN <<>> ELSE SubSeq(query, amp + 1, Len(query))
           eq == IndexOf(pair, "=")
           pairName == FormDecode(IF eq = 0 THEN pair ELSE SubSeq(pair, 1, eq - 1))
           pairValue == FormDecode(IF eq = 0 THEN <<>> ELSE SubSeq(pair, eq + 1, Len(pair)))
       IN IF pair # <<>> /\ pairName = key
          THEN [present |-> TRUE, value |-> pairValue]
          ELSE SearchParamsGet(rest, key)

\* Line 24: params.get("texture") || "blue"; null and "" are falsy
ResolveTexture(param) ==
  IF param.present /\ param.value # <<>> THEN param.value ELSE <<"b","l","u","e">>

\* Line 25: SOFAS[texture] || SOFAS.blue; only undefined is falsy here
ResolveSofa(texture) ==
  IF SofasLookup(texture).kind = "undefined"
  THEN [kind |-> "entry", member |-> <<"b","l","u","e">>]
  ELSE SofasLookup(texture)

\* String.prototype.toUpperCase on a character outside ASCII: the full case
\* mapping of the Unicode character database (UnicodeData and the
\* unconditional rules of SpecialCasing, version 17, which current runtimes
\* carry) over the Basic Multilingual Plane.  A run <<first, last, step, delta>>
\* maps every step-th code point from first to last to itself plus delta;
\* a special entry maps one code point to several.
UpperRuns ==
  << <<181, 181, 1, 743>>, <<224, 246, 1, -32>>, <<248, 254, 1, -32>>,
     <<255, 255, 1, 121>>, <<257, 303, 2, -1>>, <<305, 305, 1, -232>>,
     <<307, 311, 2, -1>>, <<314, 328, 2, -1>>, <<331, 375, 2, -1>>,
     <<378, 382, 2, -1>>, <<383, 383, 1, -300>>, <<384, 384, 1, 195>>,
     <<387, 389, 2, -1>>, <<392, 392, 1, -1>>, <<396, 396, 1, -1>>,
     <<402, 402, 1, -1>>, <<405, 405, 1, 97>>, <<409, 409, 1, -1>>,
     <<410, 410, 1, 163>>, <<411, 411, 1, 42561>>, <<414, 414, 1, 130>>,
     <<417, 421, 2, -1>>, <<424, 424, 1, -1>>, <<429, 429, 1, -1>>,
     <<432, 432, 1, -1>>, <<436, 438, 2, -1>>, <<441, 441, 1, -1>>,
     <<445, 445, 1, -1>>, <<447, 447, 1, 56>>, <<453, 453, 1, -1>>,
     <<454, 454, 1, -2>>, <<456, 456, 1, -1>>, <<457, 457, 1, -2>>,
     <<459, 459, 1, -1>>, <<460, 460, 1, -2>>, <<462, 476, 2, -1>>,
     <<477, 477, 1, -79>>, <<479, 495, 2, -1>>, <<498, 498, 1, -1>>,
     <<499, 499, 1, -2>>, <<501, 501, 1, -1>>, <<505, 543, 2, -1>>,
     <<547, 563, 2, -1>>, <<572, 572, 1, -1>>, <<575, 576, 1, 10815>>,
     <<578, 578, 1, -1>>, <<583, 591, 2, -1>>, <<592, 592, 1, 10783>>,
     <<593, 593, 1, 10780>>, <<594, 594, 1, 10782>>, <<595, 595, 1, -210>>,
     <<596, 596, 1, -206>>, <<598, 599, 1, -205>>, <<601, 601, 1, -202>>,
     <<603, 603, 1, -203>>, <<604, 604, 1, 42319>>, <<608, 608, 1, -205>>,
     <<609, 609, 1, 42315>>, <<611, 611, 1, -207>>, <<612, 612, 1, 42343>>,
     <<613, 613, 1, 42280>>, <<614, 614, 1, 42308>>, <<616, 616, 1, -209>>,
     <<617, 617, 1, -211>>, <<618, 618, 1, 42308>>, <<619, 619, 1, 10743>>,
     <<620, 620, 1, 42305>>, <<623, 623, 1, -211>>, <<625, 625, 1, 10749>>,
     <<626, 626, 1, -213>>, <<629, 629, 1, -214>>, <<637, 637, 1, 10727>>,
     <<640, 640, 1, -218>>, <<642, 642, 1, 42307>>, <<643, 643, 1, -218>>,
     <<647, 647, 1, 42282>>, <<648, 648, 1, -218>>, <<649, 649, 1, -69>>,
     <<650, 651, 1, -217>>, <<652, 652, 1, -71>>, <<658, 658, 1, -219>>,
     <<669, 669, 1, 42261>>, <<670, 670, 1, 42258>>, <<837, 837, 1, 84>>,
     <<881, 883, 2, -1>>, <<887, 887, 1, -1>>, <<891, 893, 1, 130>>,
     <<940, 940, 1, -38>>, <<941, 943, 1, -37>>, <<945, 961, 1, -32>>,
     <<962, 962, 1, -31>>, <<963, 971, 1, -32>>, <<972, 972, 1, -64>>,
     <<973, 974, 1, -63>>, <<976, 976, 1, -62>>, <<977, 977, 1, -57>>,
     <<981, 981, 1, -47>>, <<982, 982, 1, -54>>, <<983, 983, 1, -8>>,
     <<985, 1007, 2, -1>>, <<1008, 1008, 1, -86>>, <<1009, 1009, 1, -80>>,
     <<1010, 1010, 1, 7>>, <<1011, 1011, 1, -116>>, <<1013, 1013, 1, -96>>,
     <<1016, 1016, 1, -1>>, <<1019, 1019, 1, -1>>, <<1072, 1103, 1, -32>>,
     <<1104, 1119, 1, -80>>, <<1121, 1153, 2, -1>>, <<1163, 1215, 2, -1>>,
     <<1218, 1230, 2, -1>>, <<1231, 1231, 1, -15>>, <<1233, 1327, 2, -1>>,
     <<1377, 1414, 1, -48>>, <<4304, 4346, 1, 3008>>, <<4349, 4351, 1, 3008>>,
     <<5112, 5117, 1, -8>>, <<7296, 7296, 1, -6254>>, <<7297, 7297, 1, -6253>>,
     <<7298, 7298, 1, -6244>>, <<7299, 7300, 1, -6242>>,
     <<7301, 7301, 1, -6243>>, <<7302, 7302, 1, -6236>>,
     <<7303, 7303, 1, -6181>>, <<7304, 7304, 1, 35266>>, <<7306, 7306, 1, -1>>,
     <<7545, 7545, 1, 35332>>, <<7549, 7549, 1, 3814>>,
     <<7566, 7566, 1, 35384>>, <<7681, 7829, 2, -1>>, <<7835, 7835, 1, -59>>,
     <<7841, 7935, 2, -1>>, <<7936, 7943, 1, 8>>, <<7952, 7957, 1, 8>>,
     <<7968, 7975, 1, 8>>, <<7984, 7991, 1, 8>>, <<8000, 8005, 1, 8>>,
     <<8017, 8023, 2, 8>>, <<8032, 8039, 1, 8>>, <<8048, 8049, 1, 74>>,
     <<8050, 8053, 1, 86>>, <<8054, 8055, 1, 100>>, <<8056, 8057, 1, 128>>,
     <<8058, 8059, 1, 112>>, <<8060, 8061, 1, 126>>, <<8112, 8113, 1, 8>>,
     <<8126, 8126, 1, -7205>>, <<8144, 8145, 1, 8>>, <<8160, 8161, 1, 8>>,
     <<8165, 8165, 1, 7>>, <<8526, 8526, 1, -28>>, <<8560, 8575, 1, -16>>,
     <<8580, 8580, 1, -1>>, <<9424, 9449, 1, -26>>, <<11312, 11359, 1, -48>>,
     <<11361, 11361, 1, -1>>, <<11365, 11365, 1, -10795>>,
     <<11366, 11366, 1, -10792>>, <<11368, 11372, 2, -1>>,
     <<11379, 11379, 1, -1>>, <<11382, 11382, 1, -1>>, <<11393, 11491, 2, -1>>,
     <<11500, 11502, 2, -1>>, <<11507, 11507, 1, -1>>,
     <<11520, 11557, 1, -7264>>, <<11559, 11559, 1, -7264>>,
     <<11565, 11565, 1, -7264>>, <<42561, 42605, 2, -1>>,
     <<42625, 42651, 2, -1>>, <<42787, 42799, 2, -1>>, <<42803, 42863, 2, -1>>,
     <<42874, 42876, 2, -1>>, <<42879, 42887, 2, -1>>, <<42892, 42892, 1, -1>>,
     <<42897, 42899, 2, -1>>, <<42900, 42900, 1, 48>>, <<42903, 42921, 2, -1>>,
     <<42933, 42947, 2, -1>>, <<42952, 42954, 2, -1>>, <<42957, 42971, 2, -1>>,
     <<42998, 42998, 1, -1>>, <<43859, 43859, 1, -928>>,
     <<43888, 43967, 1, -38864>>, <<65345, 65370, 1, -32>> >>

UpperSpecial ==
  << <<223, <<83, 83>>>>, <<329, <<700, 78>>>>, <<496, <<74, 780>>>>,
     <<912, <<921, 776, 769>>>>, <<944, <<933, 776, 769>>>>,
     <<1415, <<1333, 1362>>>>, <<7830, <<72, 817>>>>, <<7831, <<84, 776>>>>,
     <<7832, <<87, 778>>>>, <<7833, <<89, 778>>>>, <<7834, <<65, 702>>>>,
     <<8016, <<933, 787>>>>, <<8018, <<933, 787, 768>>>>,
     <<8020, <<933, 787, 769>>>>, <<8022, <<933, 787, 834>>>>,
     <<8064, <<7944, 921>>>>, <<8065, <<7945, 921>>>>, <<8066, <<7946, 921>>>>,
     <<8067, <<7947, 921>>>>, <<8068, <<7948, 921>>>>, <<8069, <<7949, 921>>>>,
     <<8070, <<7950, 921>>>>, <<8071, <<7951, 921>>>>, <<8072, <<7944, 921>>>>,
     <<8073, <<7945, 921>>>>, <<8074, <<7946, 921>>>>, <<8075, <<7947, 921>>>>,
     <<8076, <<7948, 921>>>>, <<8077, <<7949, 921>>>>, <<8078, <<7950, 921>>>>,
     <<8079, <<7951, 921>>>>, <<8080, <<7976, 921>>>>, <<8081, <<7977, 921>>>>,
     <<8082, <<7978, 921>>>>, <<8083, <<7979, 921>>>>, <<8084, <<7980, 921>>>>,
     <<8085, <<7981, 921>>>>, <<8086, <<7982, 921>>>>, <<8087, <<7983, 921>>>>,
     <<8088, <<7976, 921>>>>, <<8089, <<7977, 921>>>>, <<8090, <<7978, 921>>>>,
     <<8091, <<7979, 921>>>>, <<8092, <<7980, 921>>>>, <<8093, <<7981, 921>>>>,
     <<8094, <<7982, 921>>>>, <<8095, <<7983, 921>>>>, <<8096, <<8040, 921>>>>,
     <<8097, <<8041, 921>>>>, <<8098, <<8042, 921>>>>, <<8099, <<8043, 921>>>>,
     <<8100, <<8044, 921>>>>, <<8101, <<8045, 921>>>>, <<8102, <<8046, 921>>>>,
     <<8103, <<8047, 921>>>>, <<8104, <<8040, 921>>>>, <<8105, <<8041, 921>>>>,
     <<8106, <<8042, 921>>>>, <<8107, <<8043, 921>>>>, <<8108, <<8044, 921>>>>,
     <<8109, <<8045, 921>>>>, <<8110, <<8046, 921>>>>, <<8111, <<8047, 921>>>>,
     <<8114, <<8122, 921>>>>, <<8115, <<913, 921>>>>, <<8116, <<902, 921>>>>,
     <<8118, <<913, 834>>>>, <<8119, <<913, 834, 921>>>>,
     <<8124, <<913, 921>>>>, <<8130, <<8138, 921>>>>, <<8131, <<919, 921>>>>,
     <<8132, <<905, 921>>>>, <<8134, <<919, 834>>>>,
     <<8135, <<919, 834, 921>>>>, <<8140, <<919, 921>>>>,
     <<8146, <<921, 776, 768>>>>, <<8147, <<921, 776, 769>>>>,
     <<8150, <<921, 834>>>>, <<8151, <<921, 776, 834>>>>,
     <<8162, <<933, 776, 768>>>>, <<8163, <<933, 776, 769>>>>,
     <<8164, <<929, 787>>>>, <<8166, <<933, 834>>>>,
     <<8167, <<933, 776, 834>>>>, <<8178, <<8186, 921>>>>,
     <<8179, <<937, 921>>>>, <<8180, <<911, 921>>>>, <<8182, <<937, 834>>>>,
     <<8183, <<937, 834, 921>>>>, <<8188, <<937, 921>>>>, <<64256, <<70, 70>>>>,
     <<64257, <<70, 73>>>>, <<64258, <<70, 76>>>>, <<64259, <<70, 70, 73>>>>,
     <<64260, <<70, 70, 76>>>>, <<64261, <<83, 84>>>>, <<64262, <<83, 84>>>>,
     <<64275, <<1348, 1350>>>>, <<64276, <<1348, 1333>>>>,
     <<64277, <<1348, 1339>>>>, <<64278, <<1358, 1350>>>>,
     <<64279, <<1348, 1341>>>> >>

RunOf(cp) ==
  {i \in 1..Len(UpperRuns) :
     /\ UpperRuns[i][1] <= cp
     /\ cp <= UpperRuns[i][2]
     /\ (cp - UpperRuns[i][1]) % UpperRuns[i][3] = 0}

SpecialOf(cp) == {i \in 1..Len(UpperSpecial) : UpperSpecial[i][1] = cp}

\* The code points of cp.toUpperCase()
UpperCodes(cp) ==
  IF SpecialOf(cp) # {} THEN UpperSpecial[CHOOSE i \in SpecialOf(cp) : TRUE][2]
  ELSE IF RunOf(cp) # {} THEN <<cp + UpperRuns[CHOOSE i \in RunOf(cp) : TRUE][4]>>
  ELSE <<cp>>

\* The code points beyond ASCII that toUpperCase changes
CasedCodes ==
  UNION {{cp \in UpperRuns[i][1]..UpperRuns[i][2] :
            (cp - UpperRuns[i][1]) % UpperRuns[i][3] = 0} : i \in 1..Len(UpperRuns)}
  \cup {UpperSpecial[i][1] : i \in 1..Len(UpperSpecial)}

\* c.toUpperCase() for a string of one UTF-16 code unit: a sequence of
\* characters, since one character can become several.  A character beyond
\* the Basic Multilingual Plane is two code units, of which charAt(0) takes
\* the first, a surrogate that toUpperCase leaves as it is
toUpperCase(c) ==
  IF c \in LowerLetters THEN <<UpperOf[c]>>
  ELSE IF \E cp \in CasedCodes : CharOfCode(cp) = c
  THEN LET codes == UpperCodes(CHOOSE cp \in CasedCodes : CharOfCode(cp) = c)
       IN [k \in 1..Len(codes) |-> CharOfCode(codes[k])]
  ELSE <<c>>

\* Line 73: texture.charAt(0).toUpperCase() + texture.slice(1)
ColourLabel(texture) ==
  IF texture = <<>> THEN <<>>
  ELSE toUpperCase(texture[1]) \o SubSeq(texture, 2, Len(texture))

NotRendered ==
  [texture |-> <<>>, sofa |-> [kind |-> "none", member |-> <<>>], label |-> <<>>]

\* PaymentContent renders for the current URL
PaymentRender ==
  /\ route = "payment"
  /\ paymentView = NotRendered
  /\ LET texture == ResolveTexture(SearchParamsGet(QueryString(href), <<"t","e","x","t","u","r","e">>))
     IN paymentView' = [texture |-> texture, sofa |-> ResolveSofa(texture),
                        label |-> ColourLabel(texture)]
  /\ lastOp' = Op("paymentRender", 0)
  /\ UNCHANGED <<envVars, moduleVars, pendingNav, history, homeVars, viewerVars, timers, shareVars, probeResult, lastRequest, qrSrc>>

\* onClick={() => router.back()} in the payment page, once it has rendered:
\* the handler asks for the traversal and returns
paymentBack ==
  /\ route = "payment"
  /\ paymentView # NotRendered
  /\ Len(pendingNav) < MaxPendingNav
  /\ PendingTasks < MaxPending
  /\ pendingNav' = Append(pendingNav, BackNav)
  /\ lastOp' = Op("paymentBack", 0)
  /\ UNCHANGED <<envVars, moduleVars, history, homeVars, viewerVars, timers, shareVars, probeResult, lastRequest, paymentView, qrSrc>>

\* The oldest navigation asked of the router completes.  A push adds its
\* URL to the session history; a traversal goes one entry back, and leaves
\* the application when the entry the session started at has nothing of
\* this application behind it.  The page that is left is unmounted: a
\* viewer loses its ref and its state, its timeouts are not cleared, and
\* the cleanup of Home's effect runs.  A Home that is entered is mounted
\* afresh and sets its 2000 ms timer.
NavigationCommit ==
  /\ pendingNav # <<>>
  /\ route \in {"home", "payment"}
  /\ LET nav == Head(pendingNav)
         leaves == nav.kind = "back" /\ Len(history) = 1
         entries == IF nav.kind = "push" THEN Append(history, nav.url)
                    ELSE IF leaves THEN history
                    ELSE SubSeq(history, 1, Len(history) - 1)
         target == IF leaves THEN "away" ELSE RouteOf(entries[Len(entries)])
     IN /\ history' = entries
        /\ route' = target
        /\ pendingNav' = IF leaves THEN <<>> ELSE Tail(pendingNav)
        /\ loading' = IF target = "home" THEN TRUE ELSE loading
        /\ loadTimer' = IF target = "home" THEN TRUE
                        ELSE IF route = "home" THEN EffectCleanup(loadTimer)
                        ELSE loadTimer
  /\ selectedTexture' = initialTexture
  /\ showQR' = FALSE
  /\ fade' = FALSE
  /\ viewerRef' = "null"
  /\ timers' = Orphaned(timers)
  /\ lastRequest' = 0
  /\ paymentView' = NotRendered
  /\ lastOp' = Op("navigate", 0)
  /\ UNCHANGED <<envVars, moduleVars, shareVars, probeResult, qrSrc>>

\* -------------------------------------------------------------------------
\* FurnitureViewer: share
\* -------------------------------------------------------------------------
\* One observable call: the function, its fixed text and the URL it is given
Call(fn, text, url) == [fn |-> fn, text |-> text, url |-> url]

\* What document.execCommand("copy") can do
ExecResults == {"true", "false", "throws"}
\* How an awaited host promise can settle
SettleResults == {"resolved", "rejected"}
\* Which of the calls made between attaching the textarea and entering the
\* inner try (lines 99-100) throws, if any
LegacyFaults == {"none", "focus", "select"}


\* A slot of handleShare invocations: where the invocation stands, the calls
\* it has made so far, what the host answered
\* Variant: the product name is written to the clipboard
ClipboardWriteTitle(url) == Call("clipboard.writeText", productName, <<>>)

NativeShareCall(url) == Call("navigator.share", productName, url)
ClipboardWriteCall(url) == Call("clipboard.writeText", "", url)

IdleShare ==
  [pc |-> "idle", log |-> <<>>, exec |-> "none", settled |-> "none",
   fault |-> "none", promise |-> "none"]

\* Lines 93-100: the temporary textarea is created, filled, attached,
\* focused and selected.  A call that throws is the last one made: control
\* leaves for the outer catch, the inner try not yet entered
LegacySetup(st, url, fault) ==
  LET attachedLog == st.log \o << Call("createElement", "textarea", <<>>),
                                  Call("textArea.value", "", url),
                                  Call("appendChild", "textarea", <<>>) >>
      focusedLog == Append(attachedLog, Call("focus", "", <<>>))
  IN [log |-> IF fault = "focus" THEN focusedLog
              ELSE Append(focusedLog, Call("select", "", <<>>)),
      attached |-> st.attached + 1,
      thrown |-> fault # "none"]

\* Lines 102-108: try { execCommand; alert } catch { alert }.  The value
\* returned by execCommand is not read
LegacyTry(st, url, result) ==
  [st EXCEPT !.log =
     IF result = "throws"
     THEN @ \o << Call("execCommand", "copy", <<>>),
                  Call("alert", MsgUnableCopy, url) >>
     ELSE @ \o << Call("execCommand", "copy", <<>>),
                  Call("alert", MsgCopied, <<>>) >>]

\* Lines 109-111: finally { removeChild }
LegacyFinally(st) ==
  [log |-> Append(st.log, Call("removeChild", "textarea", <<>>)),
   attached |-> st.attached - 1,
   thrown |-> st.thrown]

\* Lines 92-112: the legacy branch.  try/finally covers lines 102-111 only
LegacyCopy(st, url, result, fault) ==
  LET prepared == LegacySetup(st, url, fault)
  IN IF prepared.thrown THEN prepared
     ELSE LegacyFinally(LegacyTry(prepared, url, result))

\* Variant: the outer catch only logs
OuterCatchSilent(log, url) ==
  Append(log, Call("console.error", MsgErrorSharing, <<>>))

\* Variant: the outer catch leaves the URL out of its message
OuterCatchNoUrl(log, url) ==
  log \o << Call("console.error", MsgErrorSharing, <<>>),
            Call("alert", MsgUnableShare, <<>>) >>

\* Lines 113-119: the outer catch
OuterCatch(log, url) ==
  log \o << Call("console.error", MsgErrorSharing, <<>>),
            Call("alert", MsgUnableShare, url) >>

\* Variant: the outer catch throws the error again
CaughtOutcomeRethrown == "rejected"

\* Lines 113-119: the catch block runs to its end and handleShare returns,
\* which fulfils the promise of the async function
CaughtOutcome == "fulfilled"

\* The record of a finished invocation is kept until another invocation
\* starts or finishes
Retired(slots) ==
  [i \in 1..MaxShares |-> IF slots[i].pc = "done" THEN IdleShare ELSE slots[i]]

\* The slot a new invocation takes: the lowest one not awaiting
FreeSlots == {i \in 1..MaxShares : shares[i].pc \in {"idle", "done"}}
NextSlot == CHOOSE i \in FreeSlots : \A j \in FreeSlots : i <= j

\* handleShare from the click up to its first await (or to its end, on the
\* synchronous legacy path)
handleShare ==
  /\ ViewerMounted
  /\ FreeSlots # {}
  /\ IF navShare
     THEN /\ PendingTasks < MaxPending
          /\ shares' = [Retired(shares) EXCEPT ![NextSlot] =
                 [pc |-> "awaitShare",
                  log |-> <<NativeShareCall(href)>>,
                  exec |-> "none", settled |-> "pending",
                  fault |-> "none", promise |-> "pending"]]
          /\ UNCHANGED bodyTextAreas
     ELSE IF navClipboard = "writeText"
     THEN /\ PendingTasks < MaxPending
          /\ shares' = [Retired(shares) EXCEPT ![NextSlot] =
                 [pc |-> "awaitClipboard",
                  log |-> <<ClipboardWriteCall(href)>>,
                  exec |-> "none", settled |-> "pending",
                  fault |-> "none", promise |-> "pending"]]
          /\ UNCHANGED bodyTextAreas
     ELSE \E result \in ExecResults, fault \in LegacyFaults :
            LET st == LegacyCopy([log |-> <<>>, attached |-> bodyTextAreas,
                                  thrown |-> FALSE], href, result, fault)
            IN /\ st.attached <= MaxAttached
               /\ shares' = [Retired(shares) EXCEPT ![NextSlot] =
                      [pc |-> "done",
                       log |-> IF st.thrown THEN OuterCatch(st.log, href) ELSE st.log,
                       exec |-> IF st.thrown THEN "none" ELSE result,
                       settled |-> "none",
                       fault |-> fault,
                       promise |-> IF st.thrown THEN CaughtOutcome ELSE "fulfilled"]]
               /\ bodyTextAreas' = st.attached
  /\ lastOp' = Op("handleShare", NextSlot)
  /\ UNCHANGED <<envVars, moduleVars, pendingNav, history, homeVars, viewerVars, timers, probeResult, lastRequest, paymentView, qrSrc>>

\* Variant: the confirmation is shown after either awaited call
AfterAwaitAlwaysConfirms(sh, result, url) ==
  [sh EXCEPT
     !.pc = "done",
     !.settled = result,
     !.promise = IF result = "rejected" THEN CaughtOutcome ELSE "fulfilled",
     !.log = IF result = "rejected" THEN OuterCatch(@, url)
             ELSE Append(@, Call("alert", MsgCopied, <<>>))]

\* Variant: a rejected native share falls through to the clipboard tier
AfterAwaitFallsThrough(sh, result, url) ==
  [sh EXCEPT
     !.pc = "done",
     !.settled = result,
     !.promise = IF result = "rejected" THEN CaughtOutcome ELSE "fulfilled",
     !.log = IF result = "rejected"
             THEN IF sh.pc = "awaitShare"
                  THEN @ \o <<ClipboardWriteCall(url), Call("alert", MsgCopied, <<>>)>>
                  ELSE OuterCatch(@, url)
             ELSE IF sh.pc = "awaitClipboard"
                  THEN Append(@, Call("alert", MsgCopied, <<>>))
                  ELSE @]

\* The continuation of handleShare after its await
AfterAwait(sh, result, url) ==
  [sh EXCEPT
     !.pc = "done",
     !.settled = result,
     !.promise = IF result = "rejected" THEN CaughtOutcome ELSE "fulfilled",
     !.log = IF result = "rejected" THEN OuterCatch(@, url)
             ELSE IF sh.pc = "awaitClipboard"
                  THEN Append(@, Call("alert", MsgCopied, <<>>))
                  ELSE @]

\* The awaited promise of slot i settles and handleShare resumes; this does
\* not depend on the component still being mounted
shareSettle(i) ==
  /\ shares[i].pc \in {"awaitShare", "awaitClipboard"}
  /\ \E result \in SettleResults :
       shares' = [Retired(shares) EXCEPT ![i] = AfterAwait(shares[i], result, href)]
  /\ lastOp' = Op("shareSettle", i)
  /\ UNCHANGED <<envVars, moduleVars, pendingNav, history, homeVars, viewerVars, timers, bodyTextAreas, probeResult, lastRequest, paymentView, qrSrc>>

\* -------------------------------------------------------------------------
\* Specification of a page session
\* -------------------------------------------------------------------------
Init ==
  /\ windowDefined = TRUE
  /\ \E e \in SessionEnvironments :
       /\ userAgent = e.ua
       /\ navShare = e.host.share
       /\ navClipboard = e.host.clipboard
       /\ history = <<e.url>>
  /\ route = "home"
  /\ loading = TRUE
  /\ loadTimer = TRUE
  /\ selectedTexture = initialTexture
  /\ showQR = FALSE
  /\ fade = FALSE
  /\ viewerRef = "null"
  /\ viewerChunk = "unrequested"
  /\ widget = "unrequested"
  /\ pendingNav = <<>>
  /\ timers = <<>>
  /\ shares = [i \in 1..MaxShares |-> IdleShare]
  /\ bodyTextAreas = 0
  /\ lastOp = Op("init", 0)
  /\ probeResult = "none"
  /\ lastRequest = 0
  /\ paymentView = NotRendered
  /\ qrSrc = <<>>

Next ==
  \/ LoadTimerFire
  \/ HomeLeave
  \/ ViewerImportResolve
  \/ ModelViewerDefined
  \/ \E i \in 1..Len(TEXTURES) : handleTextureChange(TEXTURES[i])
  \/ TimerFire
  \/ handleAR
  \/ dismissHandoff
  \/ handleCart
  \/ viewerBack
  \/ PaymentRender
  \/ paymentBack
  \/ NavigationCommit
  \/ handleShare
  \/ \E i \in 1..MaxShares : shareSettle(i)

Spec == Init /\ [][Next]_vars

\* -------------------------------------------------------------------------
\* Specification of one desktop session with fair timers: a callback handed
\* to setTimeout is run by the event loop once its delay has passed, so a
\* pending 300 ms callback does not stay pending for ever
\* -------------------------------------------------------------------------
InitDesktop ==
  /\ Init
  /\ userAgent = UA_Windows
  /\ navShare = FALSE
  /\ navClipboard = "writeText"
  /\ history = <<HomeUrl>>

FairSpec == InitDesktop /\ [][Next]_vars /\ WF_vars(TimerFire)

\* -------------------------------------------------------------------------
\* Specification of the probe alone: isMobile() applied to identifying
\* strings, with and without a window
\* -------------------------------------------------------------------------
ProbeAlphabet == {"M", "o", "b", "i", "I", "P", "a", "d", " "}

RECURSIVE StringsUpTo(_)
StringsUpTo(n) ==
  IF n = 0 THEN {<<>>}
  ELSE LET shorter == StringsUpTo(n - 1)
       IN shorter \cup {Append(s, c) : s \in {t \in shorter : Len(t) = n - 1}, c \in ProbeAlphabet}

ProbeUserAgents ==
  { UA_iPhone, UA_Windows,
    <<"L","i","n","u","x",";"," ","A","n","d","r","o","i","d"," ","1","3">>,
    <<"l","i","n","u","x",";"," ","a","n","d","r","o","i","d">>,
    <<"A","n","d","r","i","o","d">>,
    <<"(","i","P","a","d",";"," ","C","P","U"," ","O","S">>,
    <<"I","P","A","D">>,
    <<"(","i","P","o","d"," ","t","o","u","c","h",")">>,
    <<"i","p","h","o","n","e">>,
    <<"i"," ","P","h","o","n","e">>,
    <<"O","p","e","r","a"," ","M","i","n","i","/","7",".","1">>,
    <<"O","P","E","R","A"," ","M","I","N","I">>,
    <<"O","p","e","r","a","M","i","n","i">>,
    <<"O","p","e","r","a","/","9",".","8","0">>,
    <<"M","S","I","E"," ","1","0",".","0",";"," ","I","E","M","o","b","i","l","e","/","1","0",".","0">>,
    <<"i","e","m","o","b","i","l","e">>,
    <<"W","P","D","e","s","k","t","o","p">>,
    <<"w","p","d","e","s","k","t","o","p">>,
    <<"W","P"," ","D","e","s","k","t","o","p">>,
    <<"D","e","s","k","t","o","p">>,
    <<"S","a","f","a","r","i","/","6","0","4",".","1"," ","M","o","b","i","l","e","/","1","5","E","1","4","8">>,
    <<"M","O","B","I">>,
    <<"M","o","b">>,
    <<"M","a","c","i","n","t","o","s","h",";"," ","I","n","t","e","l"," ","M","a","c"," ","O","S"," ","X">>,
    <<"X","1","1",";"," ","L","i","n","u","x"," ","x","8","6","_","6","4">> }
  \cup StringsUpTo(ProbeLen)

InitProbe ==
  /\ windowDefined \in BOOLEAN
  /\ userAgent \in ProbeUserAgents
  /\ navShare = FALSE
  /\ navClipboard = "undefined"
  /\ history = <<HomeUrl>>
  /\ route = "probe"
  /\ loading = TRUE
  /\ loadTimer = FALSE
  /\ selectedTexture = TEXTURES[1]
  /\ showQR = FALSE
  /\ fade = FALSE
  /\ viewerRef = "null"
  /\ viewerChunk = "unrequested"
  /\ widget = "unrequested"
  /\ pendingNav = <<>>
  /\ timers = <<>>
  /\ shares = [i \in 1..MaxShares |-> IdleShare]
  /\ bodyTextAreas = 0
  /\ lastOp = Op("init", 0)
  /\ probeResult = "none"
  /\ lastRequest = 0
  /\ paymentView = NotRendered
  /\ qrSrc = <<>>

\* One evaluation of isMobile()
Classify ==
  /\ route = "probe"
  /\ probeResult' = IF isMobile(windowDefined, userAgent) THEN "Mobile" ELSE "Desktop"
  /\ lastOp' = Op("classify", 0)
  /\ UNCHANGED <<envVars, moduleVars, pendingNav, history, homeVars, viewerVars, timers, shareVars, lastRequest, paymentView, qrSrc>>

NextProbe == Classify

SpecProbe == InitProbe /\ [][NextProbe]_vars

\* -------------------------------------------------------------------------
\* Specification of the payment page alone: PaymentContent rendered for URLs
\* entered directly, with and without a texture parameter
\* -------------------------------------------------------------------------
PaymentBase == <<"h","t","t","p",":","/","/","l","o","c","a","l","h","o","s","t",":","3","0","0","0","/","p","a","y","m","e","n","t">>

ParamAlphabet == {"b", "l", "u", "e", "r", "d"}

RECURSIVE ParamStrings(_)
ParamStrings(n) ==
  IF n = 0 THEN {<<>>}
  ELSE LET shorter == ParamStrings(n - 1)
       IN shorter \cup {Append(s, c) : s \in {t \in shorter : Len(t) = n - 1}, c \in ParamAlphabet}

PaymentSuffixes ==
  { <<>>,
    <<"?">>,
    <<"?","t","e","x","t","u","r","e">>,
    <<"?","t","e","x","t","u","r","e","=">>,
    <<"?","t","e","x","t","u","r","e","=","B","l","u","e">>,
    <<"?","t","e","x","t","u","r","e","=","R","E","D">>,
    <<"?","t","e","x","t","u","r","e","=","g","r","e","e","n">>,
    <<"?","t","e","x","t","u","r","e","=","c","o","n","s","t","r","u","c","t","o","r">>,
    <<"?","t","e","x","t","u","r","e","=","t","o","S","t","r","i","n","g">>,
    <<"?","t","e","x","t","u","r","e","=","v","a","l","u","e","O","f">>,
    <<"?","t","e","x","t","u","r","e","=","h","a","s","O","w","n","P","r","o","p","e","r","t","y">>,
    <<"?","t","e","x","t","u","r","e","=","_","_","p","r","o","t","o","_","_">>,
    <<"?","c","o","l","o","r","=","r","e","d">>,
    <<"?","c","o","l","o","r","=","r","e","d","&","t","e","x","t","u","r","e","=","r","e","d">>,
    <<"?","t","e","x","t","u","r","e","=","r","e","d","&","t","e","x","t","u","r","e","=","b","l","u","e">>,
    <<"?","t","e","x","t","u","r","e","=","&","t","e","x","t","u","r","e","=","r","e","d">>,
    <<"?","t","e","x","t","u","r","e","=","r","e","d","%","2","0">>,
    <<"?","t","e","x","t","u","r","e","=","b","l","u","e","+">>,
    <<"?","t","e","x","t","u","r","e","=","b","l","u","e","#","t","o","p">>,
    <<"?","T","e","x","t","u","r","e","=","r","e","d">>,
    <<"#","t","e","x","t","u","r","e","=","r","e","d">>,
    <<"?","t","e","x","t","u","r","e","=","i","s","P","r","o","t","o","t","y","p","e","O","f">>,
    <<"?","t","e","x","t","u","r","e","=","p","r","o","p","e","r","t","y","I","s","E","n","u","m","e","r","a","b","l","e">>,
    <<"?","t","e","x","t","u","r","e","=","t","o","L","o","c","a","l","e","S","t","r","i","n","g">>,
    <<"?","t","e","x","t","u","r","e","=","_","_","d","e","f","i","n","e","G","e","t","t","e","r","_","_">>,
    <<"?","t","e","x","t","u","r","e","=","_","_","d","e","f","i","n","e","S","e","t","t","e","r","_","_">>,
    <<"?","t","e","x","t","u","r","e","=","_","_","l","o","o","k","u","p","G","e","t","t","e","r","_","_">>,
    <<"?","t","e","x","t","u","r","e","=","_","_","l","o","o","k","u","p","S","e","t","t","e","r","_","_">>,
    <<"?","t","e","x","t","u","r","e","=","%","7","2","e","d">>,
    <<"?","%","7","4","e","x","t","u","r","e","=","r","e","d">>,
    <<"?","t","e","x","t","u","r","e","=","r","e","%","6","4">>,
    <<"?","t","e","x","t","u","r","e","=","%","2","f">>,
    <<"?","t","e","x","t","u","r","e","=","%","2","F">>,
    <<"?","t","e","x","t","u","r","e","=","%","4","1">>,
    <<"?","t","e","x","t","u","r","e","=","%","7","E">>,
    <<"?","t","e","x","t","u","r","e","=","%","7","a">>,
    <<"?","t","e","x","t","u","r","e","=","r","%","z","z","e","d">>,
    <<"?","t","e","x","t","u","r","e","=","r","e","d","%">>,
    <<"?","t","e","x","t","u","r","e","=","%","C","3","%","A","9">>,
    <<"?","t","e","x","t","u","r","e","=","%","C","3","%","9","F">>,
    <<"?","t","e","x","t","u","r","e","=","%","C","6","%","9","B">>,
    <<"?","t","e","x","t","u","r","e","=","%","C","9","%","A","4","a">>,
    <<"?","t","e","x","t","u","r","e","=","%","E","1","%","B","2","%","8","A">>,
    <<"?","t","e","x","t","u","r","e","=","%","E","A","%","9","F","%","8","D">>,
    <<"?","t","e","x","t","u","r","e","=","%","C","3","%","B","F","a">>,
    <<"?","t","e","x","t","u","r","e","=","%","E","F","%","A","C","%","8","1">>,
    <<"?","t","e","x","t","u","r","e","=","%","C","2","%","B","5">>,
    <<"?","t","e","x","t","u","r","e","=","%","F","0","%","9","0","%","9","0","%","A","8">>,
    <<"?","t","e","x","t","u","r","e","=","%","c","3">>,
    <<"?","t","e","x","t","u","r","e","=","%","f","f","r","e","d">>,
    <<"?","t","e","x","t","u","r","e","=","%","E","2","%","8","2","%","A","C">>,
    <<"?","t","e","x","t","u","r","e","=","%","6","2","l","u","e","%","2","0">>,
    <<"?","t","e","x","t","u","r","e","=","%","0","0">> }
  \cup {<<"?","t","e","x","t","u","r","e","=">> \o v : v \in ParamStrings(MaxParamLen)}

PaymentUrls == {PaymentBase \o suffix : suffix \in PaymentSuffixes}

InitPayment ==
  /\ windowDefined = TRUE
  /\ userAgent = UA_Windows
  /\ navShare = FALSE
  /\ navClipboard = "undefined"
  /\ history \in {<<u>> : u \in PaymentUrls}
  /\ route = "payment"
  /\ loading = TRUE
  /\ loadTimer = FALSE
  /\ selectedTexture = initialTexture
  /\ showQR = FALSE
  /\ fade = FALSE
  /\ viewerRef = "null"
  /\ viewerChunk = "unrequested"
  /\ widget = "unrequested"
  /\ pendingNav = <<>>
  /\ timers = <<>>
  /\ shares = [i \in 1..MaxShares |-> IdleShare]
  /\ bodyTextAreas = 0
  /\ lastOp = Op("init", 0)
  /\ probeResult = "none"
  /\ lastRequest = 0
  /\ paymentView = NotRendered
  /\ qrSrc = <<>>

NextPayment ==
  \/ PaymentRender
  \/ paymentBack
  \/ NavigationCommit

SpecPayment == InitPayment /\ [][NextPayment]_vars

\* -------------------------------------------------------------------------
\* Specification of the QR image URL alone: the body of FurnitureViewer
\* rendered for page URLs of every shape, with and without a window
\* -------------------------------------------------------------------------
UrlAlphabet == {"a", "/", "?", "&", "=", "#", "%", "+", "\\", "\""}

RECURSIVE UrlTails(_)
UrlTails(n) ==
  IF n = 0 THEN {<<>>}
  ELSE LET shorter == UrlTails(n - 1)
       IN shorter \cup {Append(s, c) : s \in {t \in shorter : Len(t) = n - 1}, c \in UrlAlphabet}

QRPageUrls == EntryUrls \cup {HomeUrl \o tail : tail \in UrlTails(MaxUrlTail)}

InitQR ==
  /\ windowDefined \in BOOLEAN
  /\ userAgent = UA_Windows
  /\ navShare = FALSE
  /\ navClipboard = "undefined"
  /\ history \in {<<u>> : u \in QRPageUrls}
  /\ route = "render"
  /\ loading = FALSE
  /\ loadTimer = FALSE
  /\ selectedTexture = initialTexture
  /\ showQR = FALSE
  /\ fade = FALSE
  /\ viewerRef = "null"
  /\ viewerChunk = "unrequested"
  /\ widget = "unrequested"
  /\ pendingNav = <<>>
  /\ timers = <<>>
  /\ shares = [i \in 1..MaxShares |-> IdleShare]
  /\ bodyTextAreas = 0
  /\ lastOp = Op("init", 0)
  /\ probeResult = "none"
  /\ lastRequest = 0
  /\ paymentView = NotRendered
  /\ qrSrc = <<>>

\* The body of FurnitureViewer runs: line 126 computes qrUrl
RenderViewer ==
  /\ route = "render"
  /\ lastOp.name = "init"
  /\ qrSrc' = qrUrl(windowDefined, href)
  /\ lastOp' = Op("renderViewer", 0)
  /\ UNCHANGED <<envVars, moduleVars, pendingNav, history, homeVars, viewerVars, timers, shareVars, probeResult, lastRequest, paymentView>>

NextQR == RenderViewer

SpecQR == InitQR /\ [][NextQR]_vars

\* -------------------------------------------------------------------------
\* Vocabulary of the properties
\* -------------------------------------------------------------------------
IsAlert(c) == c.fn = "alert"
IsMechanism(c) == c.fn \in {"navigator.share", "clipboard.writeText", "execCommand"}
Alerts(log) == SelectSeq(log, IsAlert)
MechanismCalls(log) == SelectSeq(log, IsMechanism)
Made(log, fn) == \E k \in 1..Len(log) : log[k].fn = fn
Confirmed(log) == \E k \in 1..Len(log) : log[k].fn = "alert" /\ log[k].text = MsgCopied
ManualShown(log) ==
  \E k \in 1..Len(log) :
    /\ log[k].fn = "alert"
    /\ log[k].text \in {MsgUnableCopy, MsgUnableShare}
    /\ log[k].url # <<>>
Slots == 1..MaxShares

\* The mobile indicators, as the documentation lists them
DocumentedIndicators == {
  <<"M","o","b","i">>, <<"A","n","d","r","o","i","d">>, <<"i","P","h","o","n","e">>,
  <<"i","P","a","d">>, <<"i","P","o","d">>, <<"O","p","e","r","a"," ","M","i","n","i">>,
  <<"I","E","M","o","b","i","l","e">>, <<"W","P","D","e","s","k","t","o","p">> }

\* What follows the origin in a URL
PathOf(url) == SubSeq(url, Len(Origin(url)) + 1, Len(url))

\* s contains sub, letter case ignored: lower-case both, compare slices
ContainsIgnoringCase(s, sub) ==
  LET ls == toLowerCase(s)
      lsub == toLowerCase(sub)
  IN \E pos \in 1..(Len(s) - Len(sub) + 1) : SubSeq(ls, pos, pos + Len(sub) - 1) = lsub

\* -------------------------------------------------------------------------
\* C1: handleAR on a desktop classification leaves the QR overlay visible,
\* the QR code encodes exactly the current page URL, and the widget's
\* activateAR() has not been called.
\* -------------------------------------------------------------------------
C1_DesktopShowsQR ==
  (lastOp.name = "handleAR" /\ ~isMobileNow) =>
    /\ showQR
    /\ QRPayload(qrUrl(windowDefined, href)) = href
    /\ ~(\E k \in 1..Len(lastOp.calls) : lastOp.calls[k] = "activateAR")

C1_Witness ==
  /\ lastOp.name = "handleAR"
  /\ userAgent = UA_Windows
  /\ href = QueryUrl
  /\ showQR

\* -------------------------------------------------------------------------
\* C2: handleAR on a mobile classification calls activateAR() exactly once
\* and raises no error when the widget handle is present, calls nothing and
\* raises no error when it is absent, and the QR overlay is not visible
\* afterwards.  The handle is present from the mount of the viewer on; while
\* import("@google/model-viewer") has not defined the element, the handle
\* is an element without activateAR and the handler throws.
\* -------------------------------------------------------------------------
C2_MobileActivatesOnce ==
  (lastOp.name = "handleAR" /\ isMobileNow) =>
    /\ viewerRef # "null" => (lastOp.calls = <<"activateAR">> /\ ~lastOp.thrown)
    /\ viewerRef = "null" => (lastOp.calls = <<>> /\ ~lastOp.thrown)
    /\ ~showQR

\* -------------------------------------------------------------------------
\* C3: isMobile() answers Mobile exactly for the identifying strings that
\* contain one of the documented indicators, letter case ignored, and a
\* window exists; the iPhone user agent is Mobile, the Windows NT one Desktop.
\* -------------------------------------------------------------------------
C3_ClassifyMatchesIndicators ==
  probeResult # "none" =>
    /\ probeResult =
         IF windowDefined /\ \E ind \in DocumentedIndicators : ContainsIgnoringCase(userAgent, ind)
         THEN "Mobile" ELSE "Desktop"
    /\ (windowDefined /\ userAgent = UA_iPhone) => probeResult = "Mobile"
    /\ userAgent = UA_Windows => probeResult = "Desktop"
    /\ ~windowDefined => probeResult = "Desktop"

C3_Witness ==
  /\ probeResult = "Mobile"
  /\ userAgent = <<"O","P","E","R","A"," ","M","I","N","I">>

\* -------------------------------------------------------------------------
\* C4: dismissHandoff hides the QR overlay and touches nothing else; applied
\* when the overlay is already hidden (in particular a second time in a row)
\* it changes nothing.
\* -------------------------------------------------------------------------
C4_DismissIdempotent ==
  [][ lastOp'.name = "dismissHandoff" =>
        /\ ~showQR'
        /\ UNCHANGED <<envVars, moduleVars, pendingNav, history, homeVars, selectedTexture, fade,
                       viewerRef, timers, shareVars, probeResult,
                       paymentView>>
        /\ lastOp.name = "dismissHandoff" => UNCHANGED showQR ]_vars

C4_Witness ==
  /\ lastOp = Op("dismissHandoff", 1)
  /\ userAgent = UA_Windows
  /\ ~showQR

\* -------------------------------------------------------------------------
\* C5: a finished handleShare has shown no notification if the native share
\* succeeded, and exactly one notification (the confirmation or a
\* manual-copy instruction) in every other case.
\* -------------------------------------------------------------------------
C5_OneOutcome ==
  \A i \in Slots :
    shares[i].pc = "done" =>
      LET log == shares[i].log
          nativeOk == Made(log, "navigator.share") /\ shares[i].settled = "resolved"
      IN IF nativeOk
         THEN Len(Alerts(log)) = 0
         ELSE /\ Len(Alerts(log)) = 1
              /\ Alerts(log)[1].text \in {MsgCopied, MsgUnableCopy, MsgUnableShare}

C5_Witness ==
  \E i \in Slots :
    /\ shares[i].pc = "done"
    /\ shares[i].settled = "rejected"
    /\ Len(Alerts(shares[i].log)) = 1

\* -------------------------------------------------------------------------
\* C6: where navigator.share exists, handleShare calls it first, with the
\* product name as title and the current URL; once it has succeeded that
\* call is all the invocation has done: no clipboard write, no temporary
\* element, no copy command, no notification.
\* -------------------------------------------------------------------------
C6_NativeFirstAndAlone ==
  \A i \in Slots :
    (navShare /\ shares[i].pc # "idle") =>
      LET log == shares[i].log
      IN /\ log[1].fn = "navigator.share"
         /\ log[1].text = "Modern Sofa Set"
         /\ lastOp = Op("handleShare", i) => log[1].url = href
         /\ shares[i].settled = "resolved" => Len(log) = 1
         /\ bodyTextAreas = 0

C6_Witness ==
  \E i \in Slots :
    /\ navShare
    /\ navClipboard = "writeText"
    /\ shares[i].pc = "done"
    /\ shares[i].settled = "resolved"

\* -------------------------------------------------------------------------
\* C7: without navigator.share and with clipboard.writeText, handleShare
\* calls writeText once, with exactly the current URL; once that has
\* succeeded the invocation has shown the one confirmation and nothing of
\* the legacy path has run.
\* -------------------------------------------------------------------------
C7_ClipboardTier ==
  \A i \in Slots :
    (~navShare /\ navClipboard = "writeText" /\ shares[i].pc # "idle") =>
      LET log == shares[i].log
      IN /\ Len(MechanismCalls(log)) = 1
         /\ log[1].fn = "clipboard.writeText"
         /\ log[1].text = ""
         /\ lastOp = Op("handleShare", i) => log[1].url = href
         /\ shares[i].settled = "resolved" =>
              /\ Len(log) = 2
              /\ log[2] = [fn |-> "alert", text |-> "Link copied to clipboard!", url |-> <<>>]

C7_Witness ==
  \E i \in Slots :
    /\ ~navShare
    /\ shares[i].pc = "done"
    /\ shares[i].settled = "resolved"
    /\ Confirmed(shares[i].log)

\* -------------------------------------------------------------------------
\* C8: when the awaited capability rejects, handleShare logs the error and
\* then shows the manual-copy instruction, which carries the URL that is
\* current at that moment.
\* -------------------------------------------------------------------------
C8_RejectionShowsManualCopy ==
  \A i \in Slots :
    (shares[i].pc = "done" /\ shares[i].settled = "rejected") =>
      LET log == shares[i].log
      IN /\ Len(log) = 3
         /\ log[2].fn = "console.error"
         /\ log[3].fn = "alert"
         /\ log[3].text = "Unable to share. Please copy the link manually: "
         /\ log[3].url # <<>>
         /\ lastOp = Op("shareSettle", i) => log[3].url = href

C8_Witness ==
  \E i \in Slots :
    /\ lastOp = Op("shareSettle", i)
    /\ shares[i].settled = "rejected"
    /\ navShare
    /\ href = QueryUrl

\* -------------------------------------------------------------------------
\* C9: the mechanisms are tried in priority order, and the manual-copy
\* message appears only after all of them have been tried and have failed.
\* -------------------------------------------------------------------------
C9_ManualOnlyAfterAllFailed ==
  \A i \in Slots :
    (shares[i].pc = "done" /\ ManualShown(shares[i].log)) =>
      /\ navShare => Made(shares[i].log, "navigator.share")
      /\ navClipboard = "writeText" => Made(shares[i].log, "clipboard.writeText")
      /\ Made(shares[i].log, "execCommand")

\* C9, amended: every invocation uses one mechanism only, the first one
\* the host offers in the order native share, clipboard write, legacy copy
\* (none at all when preparing the legacy copy throws); no later mechanism
\* is tried after it, and the manual-copy message with the URL appears
\* exactly when the invocation raised an exception: the awaited call
\* rejected, the copy command threw, or preparing the legacy copy threw.
C9_OneMechanismByAvailability ==
  \A i \in Slots :
    shares[i].pc # "idle" =>
      LET log == shares[i].log
          used == MechanismCalls(log)
      IN /\ Len(used) = IF shares[i].fault = "none" THEN 1 ELSE 0
         /\ \A k \in 1..Len(used) :
              used[k].fn =
                IF navShare THEN "navigator.share"
                ELSE IF navClipboard = "writeText" THEN "clipboard.writeText"
                ELSE "execCommand"
         /\ shares[i].pc = "done" =>
              (ManualShown(log) <=> \/ shares[i].settled = "rejected"
                                    \/ shares[i].exec = "throws"
                                    \/ shares[i].fault # "none")

C9_Witness ==
  \E i \in Slots :
    /\ navShare
    /\ navClipboard = "writeText"
    /\ shares[i].pc = "done"
    /\ shares[i].settled = "rejected"
    /\ ManualShown(shares[i].log)

\* -------------------------------------------------------------------------
\* C10: on the legacy path the confirmation is shown only when the copy
\* command succeeded; when it reports failure or throws, the manual-copy
\* instruction with the URL is shown instead.
\* -------------------------------------------------------------------------
C10_LegacyFailureShowsManualCopy ==
  \A i \in Slots :
    (shares[i].pc = "done" /\ shares[i].exec # "none") =>
      IF shares[i].exec = "true"
      THEN Confirmed(shares[i].log) /\ ~ManualShown(shares[i].log)
      ELSE ManualShown(shares[i].log) /\ ~Confirmed(shares[i].log)

\* -------------------------------------------------------------------------
\* C11: an invocation that took the legacy path has created and attached
\* exactly one temporary textarea, and when it has returned (the copy
\* command succeeded, failed, or any step of the path threw) that textarea
\* has been removed: none is attached to the document.
\* -------------------------------------------------------------------------
C11_LegacyElementAlwaysRemoved ==
  \A i \in Slots :
    (shares[i].pc = "done" /\ Made(shares[i].log, "createElement")) =>
      LET log == shares[i].log
      IN /\ Cardinality({k \in 1..Len(log) : log[k].fn = "createElement"}) = 1
         /\ Cardinality({k \in 1..Len(log) : log[k].fn = "appendChild"}) = 1
         /\ Made(log, "removeChild")
         /\ bodyTextAreas = 0

\* -------------------------------------------------------------------------
\* C12: handleShare never passes an error on to its caller: whichever
\* capability fails, the promise of a finished invocation is fulfilled, and
\* no step of handleShare changes the selected texture, the fade flag or the
\* QR visibility.
\* -------------------------------------------------------------------------
C12_ShareNeverRejects ==
  [][ lastOp'.name \in {"handleShare", "shareSettle"} =>
        /\ UNCHANGED <<selectedTexture, fade, showQR>>
        /\ shares'[lastOp'.arg].pc = "done" =>
             shares'[lastOp'.arg].promise = "fulfilled" ]_vars

C12_Witness ==
  \E i \in Slots :
    /\ lastOp = Op("shareSettle", i)
    /\ shares[i].settled = "rejected"
    /\ shares[i].promise = "fulfilled"
    /\ fade
    /\ showQR

\* -------------------------------------------------------------------------
\* C13: handleTextureChange called while no fade is on, with a variant other
\* than the active one, sets the fade flag at once, leaves the active
\* variant as it was and schedules one timer; and every request that
\* scheduled a timer is followed, the viewer staying mounted and timers
\* firing fairly, by a state where the requested variant is active and the
\* fade flag is cleared.
\* -------------------------------------------------------------------------
C13_TransitionSettles ==
  /\ [][ ( /\ lastOp'.name = "handleTextureChange"
           /\ ~fade
           /\ TEXTURES[lastOp'.arg] # selectedTexture ) =>
         ( /\ fade'
           /\ selectedTexture' = selectedTexture
           /\ Len(timers') = Len(timers) + 1 ) ]_vars
  /\ \A i \in 1..Len(TEXTURES) :
       ( /\ lastOp.name = "handleTextureChange"
         /\ lastOp.arg = i
         /\ lastOp.calls # <<>> )
       ~> ( \/ selectedTexture = TEXTURES[i] /\ ~fade
            \/ ~ViewerMounted )

C13_Witness ==
  /\ lastOp.name = "timer"
  /\ ViewerMounted
  /\ selectedTexture = TEXTURES[2]
  /\ ~fade
  /\ timers = <<>>

\* -------------------------------------------------------------------------
\* C14: handleTextureChange called with the variant that is active changes
\* nothing, in whatever state it is called: the selected variant, the fade
\* flag and the pending timers are as before, as is all other state.
\* -------------------------------------------------------------------------
C14_SameVariantNoOp ==
  [][ ( /\ lastOp'.name = "handleTextureChange"
        /\ TEXTURES[lastOp'.arg] = selectedTexture ) =>
      ( /\ UNCHANGED <<selectedTexture, fade, timers>>
        /\ UNCHANGED <<envVars, moduleVars, pendingNav, history, homeVars, showQR, viewerRef,
                       shareVars, probeResult, paymentView>>
        /\ lastOp'.calls = <<>> ) ]_vars

C14_Witness ==
  /\ lastOp = [name |-> "handleTextureChange", arg |-> 2, calls |-> <<>>,
               thrown |-> FALSE]
  /\ selectedTexture = TEXTURES[2]
  /\ fade
  /\ Len(timers) = 1

\* -------------------------------------------------------------------------
\* C15: overlapping handleTextureChange calls are last-write-wins: once no
\* timer of the mounted viewer is pending, the active variant is the one
\* that the most recent call asked for, also when that call asked for the
\* variant that was active before the transition began.
\* -------------------------------------------------------------------------
C15_LastRequestWins ==
  ( /\ ViewerMounted
    /\ lastRequest # 0
    /\ \A k \in 1..Len(timers) : ~timers[k].live ) =>
      selectedTexture = TEXTURES[lastRequest]

\* -------------------------------------------------------------------------
\* C16: in every reachable state the selected variant is exactly one entry
\* of TEXTURES, whose entries are Blue and Red and no other; a viewer that
\* has just been mounted has Blue selected.
\* -------------------------------------------------------------------------
C16_OneVariantOfTheStaticSet ==
  /\ Cardinality({i \in 1..Len(TEXTURES) : TEXTURES[i] = selectedTexture}) = 1
  /\ {TEXTURES[i].name : i \in 1..Len(TEXTURES)} = {<<"B","l","u","e">>, <<"R","e","d">>}
  /\ Len(TEXTURES) = 2
  /\ lastOp.name \in {"init", "mount"} =>
       selectedTexture.name = <<"B","l","u","e">>

C16_Witness ==
  /\ ViewerMounted
  /\ lastOp.name = "timer"
  /\ selectedTexture.name = <<"R","e","d">>
  /\ lastRequest = 2

\* -------------------------------------------------------------------------
\* C17: handleCart asks the router for /payment with the single query
\* parameter texture, whose value is the selected variant's name in lower
\* case: /payment?texture=blue with Blue selected, /payment?texture=red once
\* Red has been selected and its transition is complete; a navigation that
\* the viewer's Buy button asked for ends on the checkout page at one of
\* these two targets.
\* -------------------------------------------------------------------------
BlueTarget == <<"/","p","a","y","m","e","n","t","?","t","e","x","t","u","r","e","=","b","l","u","e">>
RedTarget == <<"/","p","a","y","m","e","n","t","?","t","e","x","t","u","r","e","=","r","e","d">>

C17_CartTargetsSelectedVariant ==
  /\ lastOp.name = "handleCart" =>
       /\ pendingNav # <<>>
       /\ pendingNav[Len(pendingNav)].kind = "push"
       /\ LET target == PathOf(pendingNav[Len(pendingNav)].url)
          IN /\ selectedTexture.name = <<"B","l","u","e">> => target = BlueTarget
             /\ selectedTexture.name = <<"R","e","d">> => target = RedTarget
             /\ Cardinality({k \in 1..Len(target) : target[k] \in {"?", "&", "="}}) = 2
             /\ RouteOf(pendingNav[Len(pendingNav)].url) = "payment"
  /\ (lastOp.name = "navigate" /\ route = "payment") =>
       PathOf(href) \in {BlueTarget, RedTarget}

C17_Witness ==
  /\ lastOp.name = "navigate"
  /\ route = "payment"
  /\ PathOf(href) = RedTarget
  /\ Len(history) = 2

\* -------------------------------------------------------------------------
\* C18: when a texture has been picked and handleCart is then called, at
\* whatever moment after the pick, the navigation target carries the picked
\* texture: Buy clicked right after Red goes to /payment?texture=red.
\* -------------------------------------------------------------------------
C18_CartCarriesPickedTexture ==
  [][ (lastOp'.name = "handleCart" /\ lastRequest # 0) =>
        PathOf(pendingNav'[Len(pendingNav')].url) =
          IF lastRequest = 1 THEN BlueTarget ELSE RedTarget ]_vars

\* -------------------------------------------------------------------------
\* C19: the payment page resolves its product from the optional texture
\* parameter: blue and red give their own entry, and every other value
\* (absent, empty, anything else) gives the blue entry; the resolved product
\* is always an entry of SOFAS.
\* -------------------------------------------------------------------------
C19_ResolvesToTableEntry ==
  paymentView # NotRendered =>
    LET param == SearchParamsGet(QueryString(href), <<"t","e","x","t","u","r","e">>)
        isRed == param.present /\ param.value = <<"r","e","d">>
    IN /\ paymentView.sofa.kind = "entry"
       /\ paymentView.sofa.member \in {<<"b","l","u","e">>, <<"r","e","d">>}
       /\ isRed => SOFAS[paymentView.sofa.member].name = "Red Sofa"
       /\ ~isRed => SOFAS[paymentView.sofa.member].name = "Blue Sofa"

\* -------------------------------------------------------------------------
\* C20: no state is a dead end: whenever the QR overlay of the mounted
\* viewer is visible, dismissHandoff can be taken and hides it; and in every
\* fair behaviour in which the texture requests come to an end, the viewer
\* is from some point on settled whenever it is mounted: fade cleared and
\* no timer pending.
\* -------------------------------------------------------------------------
C20_AlwaysRecoverable ==
  /\ []( (ViewerMounted /\ showQR) => ENABLED (dismissHandoff /\ ~showQR') )
  /\ ( <>[][lastOp'.name # "handleTextureChange"]_vars ) =>
       <>[]( ViewerMounted => (~fade /\ timers = <<>>) )

C20_Witness ==
  /\ lastOp.name = "timer"
  /\ ViewerMounted
  /\ showQR
  /\ ~fade
  /\ timers = <<>>
  /\ selectedTexture = TEXTURES[2]

\* -------------------------------------------------------------------------
\* C21: the QR image URL is the fixed endpoint prefix, ending in
\* /create-qr-code/?size=200x200&data=, followed by the encoded page URL
\* (by nothing when there is no window): what follows the prefix holds no
\* character that would end the data parameter or start another one, and
\* decodes to the page URL.
\* -------------------------------------------------------------------------
C21_QRUrlShape ==
  lastOp.name \in {"renderViewer", "mount"} =>
    LET prefix == <<"h","t","t","p","s",":","/","/","a","p","i",".","q","r","s","e","r","v","e","r",".","c","o","m","/","v","1","/","c","r","e","a","t","e","-","q","r","-","c","o","d","e","/","?","s","i","z","e","=","2","0","0","x","2","0","0","&","d","a","t","a","=">>
        data == SubSeq(qrSrc, Len(prefix) + 1, Len(qrSrc))
    IN /\ Len(qrSrc) >= Len(prefix)
       /\ SubSeq(qrSrc, 1, Len(prefix)) = prefix
       /\ \A k \in 1..Len(data) : data[k] \notin {"&", "=", "?", "#", "/", ":", "+", " "}
       /\ \A k \in 1..Len(data) :
            data[k] = "%" => (k + 2 <= Len(data) /\ IsHex(data[k + 1]) /\ IsHex(data[k + 2]))
       /\ PercentDecode(data) = IF windowDefined THEN href ELSE <<>>
       /\ ~windowDefined => qrSrc = prefix

C21_Witness ==
  /\ lastOp.name = "renderViewer"
  /\ windowDefined
  /\ href = HomeUrl \o <<"?", "a", "&">>
  /\ Len(qrSrc) > Len(QR_PREFIX) + Len(href)

\* -------------------------------------------------------------------------
\* C22: Home starts in the loading state; the loading flag is cleared by
\* the firing of the 2-second timer and by nothing else, and it is not set
\* again for that Home (only a Home mounted afresh by a navigation starts
\* loading again); from the firing on Home renders FurnitureViewer, whose
\* content is mounted in that step or, the first time, as soon as its
\* module is loaded; leaving Home while it loads cancels the timer, so no
\* timer is pending and the flag is not written once Home is unmounted.
\* -------------------------------------------------------------------------
C22_LoadingUntilTimer ==
  /\ [](lastOp.name = "init" => (loading /\ loadTimer /\ route = "home"))
  /\ [][ loading # loading' =>
           \/ /\ loading /\ route = "home" /\ loadTimer /\ ~loadTimer'
              /\ lastOp'.name \in {"mount", "loadTimer"}
           \/ ~loading /\ lastOp'.name = "navigate" /\ route' = "home" ]_vars
  /\ []( (route = "home" /\ ~loading) =>
          (ViewerMounted \/ viewerChunk = "pending") )
  /\ []( (route = "home" /\ loading) => ~ViewerMounted )
  /\ [][ lastOp'.name = "homeLeave" => ~loadTimer' ]_vars
  /\ [](route # "home" => ~loadTimer)
  /\ [][ (route # "home" /\ route' # "home") => loading' = loading ]_vars

C22_Witness ==
  /\ lastOp.name = "homeLeave"
  /\ route = "away"
  /\ loading
  /\ ~loadTimer


\* -------------------------------------------------------------------------
\* C23: the active variant changes only while the presentation is marked
\* transitioning: every timer callback that replaces the selected variant
\* by another one runs in a state where fade is set, overlapping picks
\* included.
\* -------------------------------------------------------------------------
C23_SwapOnlyWhileFading ==
  [][ ( /\ lastOp'.name = "timer"
        /\ selectedTexture' # selectedTexture ) => fade ]_vars

\* -------------------------------------------------------------------------
\* C24: a pick made while an earlier transition is pending does not cancel
\* the earlier timer, and two picks made in quick succession can resolve
\* out of order: with two callbacks pending for different variants, a step
\* is possible that applies the later pick's swap while the earlier pick's
\* callback is still pending.
\* -------------------------------------------------------------------------
C24_CanResolveOutOfOrder ==
  /\ [][ ( /\ lastOp'.name = "handleTextureChange"
           /\ lastOp'.calls # <<>> ) =>
         ( /\ Len(timers') = Len(timers) + 1
           /\ \A k \in 1..Len(timers) : timers'[k] = timers[k] ) ]_vars
  /\ []( ( /\ ViewerMounted
           /\ Len(timers) = 2
           /\ timers[1].live
           /\ timers[2].live
           /\ timers[1].texture # timers[2].texture ) =>
         ENABLED ( /\ TimerFire
                   /\ selectedTexture' = timers[2].texture
                   /\ timers' = <<timers[1]>> ) )

\* C24 as amended: a pick of a variant other than the active one, made
\* while an earlier transition is pending, schedules its own callback behind
\* the pending ones and cancels none of them; a pick of the variant that is
\* still active schedules nothing, cancels nothing and is never applied;
\* every scheduled callback stays pending until it runs, and the callbacks
\* run in the order in which they were scheduled, each callback of the
\* mounted viewer applying its own pick's variant and clearing the fade flag.
C24_ResolveInPickOrder ==
  /\ [][ lastOp'.name = "handleTextureChange" =>
         IF TEXTURES[lastOp'.arg].model # selectedTexture.model
         THEN /\ lastOp'.calls # <<>>
              /\ Len(timers') = Len(timers) + 1
              /\ \A k \in 1..Len(timers) : timers'[k] = timers[k]
              /\ timers'[Len(timers')].texture = TEXTURES[lastOp'.arg]
         ELSE /\ lastOp'.calls = <<>>
              /\ UNCHANGED <<timers, selectedTexture, fade>> ]_vars
  /\ [][ lastOp'.name = "timer" =>
         ( /\ Len(timers') = Len(timers) - 1
           /\ \A k \in 1..Len(timers') : timers'[k] = timers[k + 1]
           /\ timers[1].live =>
                ( /\ selectedTexture' = timers[1].texture
                  /\ ~fade' ) ) ]_vars

C24_Witness ==
  /\ lastOp.name = "timer"
  /\ ViewerMounted
  /\ ~fade
  /\ Len(timers) = 1
  /\ timers[1].live
  /\ timers[1].texture # selectedTexture

\* -------------------------------------------------------------------------
\* C25: the selected variant is replaced only by the callback of a texture
\* pick (the state of a viewer goes with it when a navigation unmounts it,
\* and a viewer mounted afresh starts from its initial state): handleAR in
\* either branch, dismissHandoff, handleShare in every tier, the settling
\* of a share with every outcome, and handleCart leave the selected variant
\* and the fade flag as they were.
\* -------------------------------------------------------------------------
C25_OnlyPicksMoveTheVariant ==
  /\ [][ lastOp'.name \in {"handleAR", "dismissHandoff", "handleShare",
                           "shareSettle", "handleCart"} =>
         UNCHANGED <<selectedTexture, fade>> ]_vars
  /\ [][ selectedTexture' # selectedTexture =>
         lastOp'.name \in {"timer", "mount", "navigate"} ]_vars

C25_Witness ==
  /\ lastOp.name = "handleCart"
  /\ fade
  /\ selectedTexture = TEXTURES[2]

\* -------------------------------------------------------------------------
\* C26: a share suspended at its await blocks nothing.  While an invocation
\* awaits, handleTextureChange, handleAR, dismissHandoff and handleCart are
\* enabled on the mounted viewer (within the bounds on outstanding work) and
\* a pending timer can fire; each of them
\* has the effect it has with no share in flight and leaves the awaiting
\* invocation as it is; and when the awaited promise settles, the outcome
\* of the share (fulfilled, which mechanism was called, which notification
\* is shown) is decided by the tier that was awaited and by how the promise
\* settled, whatever was interleaved.
\* -------------------------------------------------------------------------
C26_ShareBlocksNothing ==
  /\ []( ( /\ \E i \in Slots : shares[i].pc \in {"awaitShare", "awaitClipboard"}
           /\ ViewerMounted ) =>
         ( /\ ENABLED handleAR
           /\ ENABLED dismissHandoff
           /\ (Len(pendingNav) < MaxPendingNav /\ PendingTasks < MaxPending) =>
                ENABLED handleCart
           /\ \A k \in 1..Len(TEXTURES) :
                ( \/ SameVariant(TEXTURES[k], selectedTexture)
                  \/ (Len(timers) < MaxTimers /\ PendingTasks < MaxPending) ) =>
                ENABLED handleTextureChange(TEXTURES[k]) ) )
  /\ []( ( /\ \E i \in Slots : shares[i].pc \in {"awaitShare", "awaitClipboard"}
           /\ timers # <<>> ) => ENABLED TimerFire )
  /\ [][ ( /\ \E i \in Slots : shares[i].pc \in {"awaitShare", "awaitClipboard"}
           /\ lastOp'.name \in {"handleTextureChange", "handleAR",
                                "dismissHandoff", "handleCart", "timer"} ) =>
         ( /\ UNCHANGED <<shares, bodyTextAreas>>
           /\ lastOp'.name = "handleAR" =>
                ( /\ showQR' = ARBranch(isMobileNow, viewerRef, showQR).showQR
                  /\ lastOp'.calls = ARBranch(isMobileNow, viewerRef, showQR).calls
                  /\ lastOp'.thrown = ARBranch(isMobileNow, viewerRef, showQR).thrown
                  /\ UNCHANGED <<selectedTexture, fade, timers, route, history, pendingNav>> )
           /\ lastOp'.name = "dismissHandoff" =>
                ( /\ ~showQR'
                  /\ UNCHANGED <<selectedTexture, fade, timers, route, history, pendingNav>> )
           /\ lastOp'.name = "handleCart" =>
                ( /\ pendingNav' = Append(pendingNav,
                                     PushNav(Origin(href) \o CartTarget(selectedTexture)))
                  /\ UNCHANGED <<selectedTexture, fade, showQR, timers, route, history>> )
           /\ lastOp'.name = "handleTextureChange" =>
                ( /\ UNCHANGED <<selectedTexture, showQR, route, history, pendingNav>>
                  /\ IF TEXTURES[lastOp'.arg].model = selectedTexture.model
                     THEN UNCHANGED <<fade, timers>>
                     ELSE /\ fade'
                          /\ timers' = Append(timers, [texture |-> TEXTURES[lastOp'.arg],
                                                       live |-> TRUE]) )
           /\ lastOp'.name = "timer" =>
                ( /\ timers' = Tail(timers)
                  /\ UNCHANGED <<showQR, route, history, pendingNav>>
                  /\ IF timers[1].live
                     THEN selectedTexture' = timers[1].texture /\ ~fade'
                     ELSE UNCHANGED <<selectedTexture, fade>> ) ) ]_vars
  /\ [][ lastOp'.name = "shareSettle" =>
         ( /\ shares[lastOp'.arg].pc \in {"awaitShare", "awaitClipboard"}
           /\ shares'[lastOp'.arg].pc = "done"
           /\ shares'[lastOp'.arg].settled \in SettleResults
           /\ shares'[lastOp'.arg].promise = "fulfilled"
           /\ MechanismCalls(shares'[lastOp'.arg].log) = MechanismCalls(shares[lastOp'.arg].log)
           /\ Confirmed(shares'[lastOp'.arg].log) <=>
                ( /\ shares[lastOp'.arg].pc = "awaitClipboard"
                  /\ shares'[lastOp'.arg].settled = "resolved" )
           /\ ManualShown(shares'[lastOp'.arg].log) <=>
                shares'[lastOp'.arg].settled = "rejected"
           /\ Len(Alerts(shares'[lastOp'.arg].log)) =
                IF /\ shares[lastOp'.arg].pc = "awaitShare"
                   /\ shares'[lastOp'.arg].settled = "resolved"
                THEN 0 ELSE 1 ) ]_vars

C26_Witness ==
  \E i \in Slots :
    /\ lastOp = Op("shareSettle", i)
    /\ route = "payment"
    /\ Len(history) = 2
    /\ shares[i].settled = "rejected"
    /\ ManualShown(shares[i].log)

\* -------------------------------------------------------------------------
\* C27: in every reachable state of the mounted viewer the fade flag agrees
\* with the pending transition timers: exactly one timer of the viewer is
\* pending when fade is set, none when fade is cleared, and never more than
\* one.
\* -------------------------------------------------------------------------
C27_FadeAgreesWithTimers ==
  ViewerMounted =>
    Cardinality({k \in 1..Len(timers) : timers[k].live}) = IF fade THEN 1 ELSE 0

\* -------------------------------------------------------------------------
\* C28: no transition timer outlives the viewer that scheduled it: every
\* pending timer belongs to the mounted viewer (unmounting cancels what is
\* pending, as the cleanup of Home's loading timer does), so no callback
\* runs for a viewer that is gone.
\* -------------------------------------------------------------------------
C28_TimersCancelledOnUnmount ==
  /\ [](\A k \in 1..Len(timers) : timers[k].live)
  /\ [][ lastOp'.name = "timer" => (ViewerMounted /\ timers[1].live) ]_vars

\* -------------------------------------------------------------------------
\* C29: in the checkout view, whatever the texture parameter is, the colour
\* label of the order summary names the variant whose name, image and
\* price are shown beside it: the product shown is an entry of SOFAS, and
\* the variant of TEXTURES that carries the label as its name has the image
\* and the price of that entry.
\* -------------------------------------------------------------------------
C29_LabelNamesTheProductShown ==
  paymentView # NotRendered =>
    /\ paymentView.sofa.kind = "entry"
    /\ \E t \in TextureSet :
         /\ t.name = paymentView.label
         /\ toLowerCase(t.name) = paymentView.sofa.member
         /\ t.img = SOFAS[paymentView.sofa.member].img
         /\ t.price = SOFAS[paymentView.sofa.member].price

\* -------------------------------------------------------------------------
\* C30: the viewer's table and the checkout table agree.  For every variant
\* of TEXTURES the lower-cased name is a key of SOFAS, distinct variants
\* have distinct keys, and the entry under the key has the variant's price
\* and preview image; so the URL that handleCart hands to the router, read
\* as the checkout page reads it, resolves to the entry of the variant the
\* viewer has selected, with that variant's price and image, and the
\* checkout view reached by that navigation shows the entry of a variant.
\* -------------------------------------------------------------------------
C30_TablesRoundTrip ==
  /\ \A t \in TextureSet :
       /\ toLowerCase(t.name) \in DOMAIN SOFAS
       /\ SOFAS[toLowerCase(t.name)].price = t.price
       /\ SOFAS[toLowerCase(t.name)].img = t.img
  /\ \A t1, t2 \in TextureSet :
       t1 # t2 => toLowerCase(t1.name) # toLowerCase(t2.name)
  /\ lastOp.name = "handleCart" =>
       LET url == pendingNav[Len(pendingNav)].url
           texture == ResolveTexture(SearchParamsGet(QueryString(url), <<"t","e","x","t","u","r","e">>))
           sofa == ResolveSofa(texture)
       IN /\ sofa.kind = "entry"
          /\ sofa.member = toLowerCase(selectedTexture.name)
          /\ SOFAS[sofa.member].price = selectedTexture.price
          /\ SOFAS[sofa.member].img = selectedTexture.img
  /\ ( /\ lastOp.name = "paymentRender"
       /\ Len(history) > 1 ) =>
       ( /\ paymentView.sofa.kind = "entry"
         /\ \E t \in TextureSet :
              /\ paymentView.sofa.member = toLowerCase(t.name)
              /\ SOFAS[paymentView.sofa.member].price = t.price
              /\ SOFAS[paymentView.sofa.member].img = t.img )

C30_Witness ==
  /\ lastOp.name = "paymentRender"
  /\ Len(history) > 1
  /\ paymentView.sofa.member = <<"r","e","d">>
  /\ SOFAS[paymentView.sofa.member].price = 400

====
